---- MODULE Spec2Model ----
(***************************************************************************)
(* The DSPA maintenance scripts of dspa-deployment/ as one state machine.  *)
(* One run of one script is one behaviour: Init picks the script, every    *)
(* action is one step of that script's main / submit / monitor function,   *)
(* and everything the cluster, the DSPA API, the kubeconfig file or the    *)
(* terminal (Ctrl-C) may answer is a nondeterministic input of the step    *)
(* that reads it.                                                          *)
(***************************************************************************)
EXTENDS Integers, Sequences, FiniteSets, TLC

\* ------------------------------------------------------------------ bounds
\* Largest number of nodes in one workflow status snapshot.
MaxNodes == 2
\* Largest number of context entries / user entries in a kubeconfig.
MaxEntries == 2
\* Most nodes a large workflow snapshot has.
MaxTotal == 50
\* Most pipelines in one answer of the pipelines request.
MaxPipelines == 2

\* --------------------------------------------------------------- constants
None == "None"
\* A key that a dict (a parsed YAML or JSON object) does not have.
Missing == "Missing"

\* monitor_production_pipeline.py:160 / submit_pipeline_production.py:155
max_duration == 24 * 60 * 60
\* monitor_production_pipeline.py:161 / submit_pipeline_production.py:156
check_interval == 10 * 60
\* submit_pipeline_complete.py:288-289
max_monitoring_time == 4 * 60 * 60
complete_check_interval == 30
\* submit_pipeline_nfs_storage.py:197 and :204
nfs_poll_sleep == 30
nfs_retry_sleep == 60
\* submit_pipeline_storage_fixed.py:265, :285, :289
simple_polls == 20
simple_sleep == 30
\* Exit status of a Python process that dies of an uncaught exception (1,
\* after the traceback) or of an uncaught KeyboardInterrupt (killed by SIGINT).
UncaughtExit(e) == IF e = "KeyboardInterrupt" THEN 128 + 2 ELSE 1

Scripts ==
  { "monitor_production_pipeline", "submit_pipeline_production",
    "submit_pipeline_nfs_storage", "submit_pipeline_complete",
    "submit_pipeline", "submit_pipeline_fixed",
    "submit_pipeline_storage_fixed", "fix_granite_image" }

V1Scripts == { "submit_pipeline_production", "submit_pipeline_nfs_storage" }
V2Scripts == { "submit_pipeline", "submit_pipeline_fixed",
               "submit_pipeline_complete", "submit_pipeline_storage_fixed" }

\* ------------------------------------------------- workflow status snapshot
\* Phase of a node; "Skipped" stands for every phase the scripts do not name
\* (and for a node without a phase field).
NodePhases == { "Succeeded", "Running", "Failed", "Error", "Pending", "Skipped" }
\* Phase of the workflow / status of the run; "Unknown" is the default the
\* scripts substitute when the field is missing, "Running" stands for every
\* phase that is not final (Pending, Running).
WorkflowPhases == { "Unknown", "Running", "Succeeded", "Failed", "Error" }
TerminalPhases == { "Succeeded", "Failed", "Error" }

PhaseRank(p) ==
  CASE p = "Succeeded" -> 1 [] p = "Running" -> 2 [] p = "Failed" -> 3
    [] p = "Error" -> 4 [] p = "Pending" -> 5 [] OTHER -> 6

\* status.nodes is a dict keyed by node name; the scripts only count its
\* values, so a snapshot's nodes are listed once per multiset of phases.
NodeLists ==
  { s \in UNION { [1..n -> NodePhases] : n \in 0..MaxNodes } :
      \A k \in 1..(Len(s) - 1) : PhaseRank(s[k]) <= PhaseRank(s[k + 1]) }

Count(s, P) == Cardinality({ k \in 1..Len(s) : s[k] \in P })

\* What get_workflow_status hands back: None (the kubectl command failed,
\* printed nothing, or printed invalid JSON), or the workflow object.
NoWorkflow == [present |-> FALSE]
Workflows ==
  { [present |-> TRUE, phase |-> p, nodes |-> ns] :
      p \in WorkflowPhases, ns \in NodeLists }

get_workflow_status_results == { NoWorkflow } \cup Workflows

NoProgress == [present |-> FALSE]

\* ---- Python float arithmetic, as far as int((completed / total) * 100) needs it
\* A float is a binary64: 53 significant bits, results rounded to nearest,
\* ties to even.  A value is written [m, x]: the natural number m times
\* 2^(-x), m a sequence of limbs of LimbBits bits, the most significant
\* first and alone unbounded.
DoubleBits == 53

LimbBits == 13

RECURSIVE Pow2(_)
Pow2(n) == IF n = 0 THEN 1 ELSE 2 * Pow2(n - 1)

LimbBase == Pow2(LimbBits)

\* limbs below the leading bit of a normalised significand
Limbs == (DoubleBits - 1) \div LimbBits

Front(l) == SubSeq(l, 1, Len(l) - 1)

RECURSIVE BitLen(_)
BitLen(n) == IF n = 0 THEN 0 ELSE 1 + BitLen(n \div 2)

RECURSIVE Carry(_)
\* every limb but the first brought below LimbBase
Carry(l) ==
  IF Len(l) <= 1 THEN l
  ELSE LET last == l[Len(l)]
           front == Front(l)
       IN Carry([ front EXCEPT ![Len(front)] = @ + last \div LimbBase ])
            \o << last % LimbBase >>

RECURSIVE LongDiv(_, _, _)
\* n limbs of r / t for r < t, and what is left to divide
LongDiv(r, t, n) ==
  IF n = 0 THEN [ digits |-> << >>, rem |-> r ]
  ELSE LET rest == LongDiv((r * LimbBase) % t, t, n - 1)
       IN [ digits |-> << (r * LimbBase) \div t >> \o rest.digits,
            rem |-> rest.rem ]

RECURSIVE Normalise(_, _, _)
\* the least e with c * 2^e >= t
Normalise(c, t, e) == IF c >= t THEN e ELSE Normalise(2 * c, t, e + 1)

\* completed / total for 0 < completed <= total: the nearest float
true_divide(c, t) ==
  LET e == Normalise(c, t, 0)
      n == c * Pow2(e)
      d == LongDiv(n % t, t, Limbs)
      odd == d.digits[Limbs] % 2 = 1
      up == 2 * d.rem > t \/ (2 * d.rem = t /\ odd)
      m == << n \div t >> \o d.digits
  IN [ m |-> IF up THEN Carry([ m EXCEPT ![Limbs + 1] = @ + 1 ]) ELSE m,
       x |-> DoubleBits - 1 + e ]

\* a product rounded to DoubleBits significant bits: the bits to drop are
\* the lowest of the last limb
round_float(v) ==
  LET drop == BitLen(v.m[1]) - 1
      unit == Pow2(drop)
      last == v.m[Len(v.m)]
      low == last % unit
      odd == ((last - low) \div unit) % 2 = 1
      up == 2 * low > unit \/ (2 * low = unit /\ odd)
  IN [ m |-> Carry([ v.m EXCEPT ![Len(v.m)] =
                       (last - low) + (IF up THEN unit ELSE 0) ]),
       x |-> v.x ]

\* f * 100
float_mul_100(f) ==
  round_float([ m |-> Carry([ k \in 1..Len(f.m) |-> f.m[k] * 100 ]),
                x |-> f.x ])

\* int(f): truncation, for f >= 1 / 2^LimbBits
int_of_float(f) == f.m[1] \div Pow2(f.x - Limbs * LimbBits)

\* int((completed / total) * 100) for total > 0
float_progress_pct(completed, total) ==
  IF completed = 0 THEN 0
  ELSE LET quotient == true_divide(completed, total)
           product == float_mul_100(quotient)
       IN int_of_float(product)

\* The percentages of all the node counts the snapshots of this model have.
progress_pcts ==
  [ total \in 1..MaxTotal |->
      [ completed \in 0..total |-> float_progress_pct(completed, total) ] ]

\* int((completed / total) * 100) if total > 0 else 0
progress_pct(completed, total) ==
  IF total > 0 THEN progress_pcts[total][completed] ELSE 0

\* A classification that takes every phase it does not name as pending.
node_list_mut(phase) ==
  CASE phase = "Succeeded" -> "completed_nodes"
    [] phase = "Running" -> "running_nodes"
    [] phase \in { "Failed", "Error" } -> "failed_nodes"
    [] OTHER -> "pending_nodes"

\* The list the loop over nodes.items() appends a node of this phase to
\* (None: to no list).
node_list(phase) ==
  CASE phase = "Succeeded" -> "completed_nodes"
    [] phase = "Running" -> "running_nodes"
    [] phase \in { "Failed", "Error" } -> "failed_nodes"
    [] phase \in { "Pending" } -> "pending_nodes"
    [] OTHER -> None

\* The names (here: the positions) of the nodes appended to a list, in order.
node_names(nodes, list) ==
  SelectSeq([ k \in 1..Len(nodes) |-> k ],
            LAMBDA k : node_list(nodes[k]) = list)

\* `not workflow_data`: None, or a dict without keys
EmptyDict == [present |-> TRUE]
falsy_workflow_data(wd) == ~wd.present \/ wd = EmptyDict

analyze_workflow_progress(wd) ==
  IF falsy_workflow_data(wd) THEN NoProgress
  ELSE
    LET nodes == wd.nodes
        completed_nodes == node_names(nodes, "completed_nodes")
        running_nodes == node_names(nodes, "running_nodes")
        failed_nodes == node_names(nodes, "failed_nodes")
        pending_nodes == node_names(nodes, "pending_nodes")
    IN [ present |-> TRUE,
         workflow_status |-> wd.phase,
         total_nodes |-> Len(nodes),
         completed_nodes |-> Len(completed_nodes),
         running_nodes |-> Len(running_nodes),
         failed_nodes |-> Len(failed_nodes),
         pending_nodes |-> Len(pending_nodes),
         progress_pct |-> progress_pct(Len(completed_nodes), Len(nodes)),
         failed_node_names |-> failed_nodes,
         running_node_names |-> running_nodes,
         completed_node_names |-> completed_nodes ]

\* A print_status_update that never signals a failed node.
print_status_update_mut(progress_info) ==
  IF ~progress_info.present THEN "None" ELSE "True"

\* The value print_status_update returns: a bare `return` (None) when there
\* is no progress_info, False when a node failed, True otherwise.
print_status_update(progress_info) ==
  IF ~progress_info.present THEN "None"
  ELSE IF progress_info.failed_nodes > 0 THEN "False"
  ELSE "True"

\* Python truth value of a True / False / None result.
Truthy(v) == v = "True"

\* A should_print that ignores a change of the percentage.
should_print_mut(progress_info, last, iter) ==
  \/ ~progress_info.present
  \/ iter % 6 = 1
  \/ progress_info.failed_nodes > 0
  \/ progress_info.workflow_status \in TerminalPhases

\* Print status only if there's a change or every 6 checks (1 hour)
should_print(progress_info, last, iter) ==
  \/ ~progress_info.present
  \/ progress_info.progress_pct # last
  \/ iter % 6 = 1
  \/ progress_info.failed_nodes > 0
  \/ progress_info.workflow_status \in TerminalPhases

\* ------------------------------------- the runtime parameters of the v2beta1 runs
\* The parameter tables, key by key; every value is written as its Python
\* text (30 -> "30", False -> "False", {} -> "{}").
\* submit_pipeline.py: default_params
default_params ==
  "output_model_name" :> "fine-tuned-granite-7b"
  @@ "output_model_registry_api_url" :> ""
  @@ "output_model_registry_name" :> ""
  @@ "output_model_version" :> ""
  @@ "output_oci_model_uri" :> ""
  @@ "output_oci_registry_secret" :> "oci-output-push-secret"
  @@ "sdg_base_model" :> "oci://registry.redhat.io/rhoai/granite-7b-starter"
  @@ "sdg_repo_url" :> "https://github.com/cnuland/hello-chris-dev-taxonomy.git"
  @@ "train_node_selectors" :> "{}"
  @@ "train_tolerations" :> "[{'key': 'nvidia.com/gpu', 'operator': 'Equal', 'value': 'true', 'effect': 'NoSchedule'}]"
  @@ "sdg_teacher_secret" :> "teacher-secret"
  @@ "sdg_repo_secret" :> "taxonomy-repo-secret"
  @@ "eval_judge_secret" :> "judge-secret"
  @@ "train_gpu_identifier" :> "nvidia.com/gpu"
  @@ "eval_gpu_identifier" :> "nvidia.com/gpu"
  @@ "k8s_storage_class_name" :> "gp3"
  @@ "k8s_storage_size" :> "50Gi"
  @@ "sdg_scale_factor" :> "30"
  @@ "train_num_epochs_phase_1" :> "7"
  @@ "train_num_epochs_phase_2" :> "10"
  @@ "train_effective_batch_size_phase_1" :> "3840"
  @@ "train_effective_batch_size_phase_2" :> "3840"
  @@ "train_learning_rate_phase_1" :> "2e-06"
  @@ "train_learning_rate_phase_2" :> "1e-06"
  @@ "train_cpu_per_worker" :> "8"
  @@ "train_memory_per_worker" :> "32Gi"
  @@ "train_gpu_per_worker" :> "1"
  @@ "train_num_workers" :> "4"
  @@ "sdg_batch_size" :> "10"
  @@ "sdg_num_workers" :> "4"
  @@ "mt_bench_merge_system_user_message" :> "False"
  @@ "final_eval_merge_system_user_message" :> "False"
  @@ "mt_bench_max_workers" :> "auto"
  @@ "final_eval_max_workers" :> "auto"
  @@ "final_eval_batch_size" :> "auto"
  @@ "final_eval_few_shots" :> "5"

\* submit_pipeline_fixed.py: cuda_fixed_params
cuda_fixed_params ==
  "output_model_name" :> "fine-tuned-granite-7b-fixed"
  @@ "output_model_registry_api_url" :> ""
  @@ "output_model_registry_name" :> ""
  @@ "output_model_version" :> ""
  @@ "output_oci_model_uri" :> ""
  @@ "output_oci_registry_secret" :> "oci-output-push-secret"
  @@ "sdg_base_model" :> "oci://registry.redhat.io/rhoai/granite-7b-starter"
  @@ "sdg_repo_url" :> "https://github.com/cnuland/hello-chris-dev-taxonomy.git"
  @@ "train_node_selectors" :> "{'node-role.kubernetes.io/gpu': ''}"
  @@ "train_tolerations" :> "[{'key': 'nvidia.com/gpu', 'operator': 'Equal', 'value': 'true', 'effect': 'NoSchedule'}]"
  @@ "sdg_teacher_secret" :> "teacher-secret"
  @@ "sdg_repo_secret" :> "taxonomy-repo-secret"
  @@ "eval_judge_secret" :> "judge-secret"
  @@ "train_gpu_identifier" :> "nvidia.com/gpu"
  @@ "eval_gpu_identifier" :> "nvidia.com/gpu"
  @@ "k8s_storage_class_name" :> "gp3"
  @@ "k8s_storage_size" :> "50Gi"
  @@ "sdg_scale_factor" :> "1"
  @@ "train_num_epochs_phase_1" :> "1"
  @@ "train_num_epochs_phase_2" :> "1"
  @@ "train_effective_batch_size_phase_1" :> "128"
  @@ "train_effective_batch_size_phase_2" :> "128"
  @@ "train_learning_rate_phase_1" :> "1e-05"
  @@ "train_learning_rate_phase_2" :> "5e-06"
  @@ "train_cpu_per_worker" :> "4"
  @@ "train_memory_per_worker" :> "16Gi"
  @@ "train_gpu_per_worker" :> "1"
  @@ "train_num_workers" :> "1"
  @@ "sdg_batch_size" :> "2"
  @@ "sdg_num_workers" :> "2"
  @@ "mt_bench_merge_system_user_message" :> "False"
  @@ "final_eval_merge_system_user_message" :> "False"
  @@ "mt_bench_max_workers" :> "2"
  @@ "final_eval_max_workers" :> "2"
  @@ "final_eval_batch_size" :> "2"
  @@ "final_eval_few_shots" :> "1"

\* submit_pipeline_complete.py: complete_training_params
complete_training_params ==
  "output_model_name" :> "fine-tuned-granite-7b-complete"
  @@ "output_model_registry_api_url" :> ""
  @@ "output_model_registry_name" :> ""
  @@ "output_model_version" :> ""
  @@ "output_oci_model_uri" :> ""
  @@ "output_oci_registry_secret" :> "oci-output-push-secret"
  @@ "sdg_base_model" :> "oci://registry.redhat.io/rhoai/granite-7b-starter"
  @@ "sdg_repo_url" :> "https://github.com/cnuland/hello-chris-dev-taxonomy.git"
  @@ "train_node_selectors" :> "{}"
  @@ "train_tolerations" :> "[{'key': 'nvidia.com/gpu', 'operator': 'Equal', 'value': 'true', 'effect': 'NoSchedule'}]"
  @@ "sdg_teacher_secret" :> "teacher-secret"
  @@ "sdg_repo_secret" :> "taxonomy-repo-secret"
  @@ "eval_judge_secret" :> "judge-secret"
  @@ "train_gpu_identifier" :> "nvidia.com/gpu"
  @@ "eval_gpu_identifier" :> "nvidia.com/gpu"
  @@ "k8s_storage_class_name" :> "gp3"
  @@ "k8s_storage_size" :> "50Gi"
  @@ "sdg_scale_factor" :> "5"
  @@ "train_num_epochs_phase_1" :> "2"
  @@ "train_num_epochs_phase_2" :> "3"
  @@ "train_effective_batch_size_phase_1" :> "256"
  @@ "train_effective_batch_size_phase_2" :> "256"
  @@ "train_learning_rate_phase_1" :> "2e-05"
  @@ "train_learning_rate_phase_2" :> "1e-05"
  @@ "train_cpu_per_worker" :> "6"
  @@ "train_memory_per_worker" :> "24Gi"
  @@ "train_gpu_per_worker" :> "1"
  @@ "train_num_workers" :> "1"
  @@ "sdg_batch_size" :> "4"
  @@ "sdg_num_workers" :> "4"
  @@ "mt_bench_merge_system_user_message" :> "False"
  @@ "final_eval_merge_system_user_message" :> "False"
  @@ "mt_bench_max_workers" :> "2"
  @@ "final_eval_max_workers" :> "2"
  @@ "final_eval_batch_size" :> "4"
  @@ "final_eval_few_shots" :> "2"
  @@ "train_num_warmup_steps_phase_1" :> "100"
  @@ "train_num_warmup_steps_phase_2" :> "100"
  @@ "train_save_samples" :> "50000"
  @@ "train_seed" :> "42"
  @@ "train_max_batch_len" :> "4096"
  @@ "sdg_max_batch_len" :> "4096"
  @@ "sdg_sample_size" :> "1.0"
  @@ "sdg_pipeline" :> "/usr/share/instructlab/sdg/pipelines/full"

\* submit_pipeline_storage_fixed.py: storage_fixed_params
storage_fixed_params ==
  "output_model_name" :> "fine-tuned-granite-7b-storage-fixed"
  @@ "output_model_registry_api_url" :> ""
  @@ "output_model_registry_name" :> ""
  @@ "output_model_version" :> ""
  @@ "output_oci_model_uri" :> ""
  @@ "output_oci_registry_secret" :> "oci-output-push-secret"
  @@ "sdg_base_model" :> "oci://registry.redhat.io/rhoai/granite-7b-starter"
  @@ "sdg_repo_url" :> "https://github.com/cnuland/hello-chris-dev-taxonomy.git"
  @@ "train_node_selectors" :> "{}"
  @@ "train_tolerations" :> "[{'key': 'nvidia.com/gpu', 'operator': 'Equal', 'value': 'true', 'effect': 'NoSchedule'}]"
  @@ "sdg_teacher_secret" :> "teacher-secret"
  @@ "sdg_repo_secret" :> "taxonomy-repo-secret"
  @@ "eval_judge_secret" :> "judge-secret"
  @@ "train_gpu_identifier" :> "nvidia.com/gpu"
  @@ "eval_gpu_identifier" :> "nvidia.com/gpu"
  @@ "k8s_storage_class_name" :> "gp3"
  @@ "k8s_storage_size" :> "50Gi"
  @@ "sdg_scale_factor" :> "3"
  @@ "train_num_epochs_phase_1" :> "1"
  @@ "train_num_epochs_phase_2" :> "1"
  @@ "train_effective_batch_size_phase_1" :> "128"
  @@ "train_effective_batch_size_phase_2" :> "128"
  @@ "train_learning_rate_phase_1" :> "1e-05"
  @@ "train_learning_rate_phase_2" :> "5e-06"
  @@ "train_cpu_per_worker" :> "4"
  @@ "train_memory_per_worker" :> "16Gi"
  @@ "train_gpu_per_worker" :> "1"
  @@ "train_num_workers" :> "1"
  @@ "sdg_batch_size" :> "2"
  @@ "sdg_num_workers" :> "2"
  @@ "mt_bench_merge_system_user_message" :> "False"
  @@ "final_eval_merge_system_user_message" :> "False"
  @@ "mt_bench_max_workers" :> "2"
  @@ "final_eval_max_workers" :> "2"
  @@ "final_eval_batch_size" :> "2"
  @@ "final_eval_few_shots" :> "1"
  @@ "train_num_warmup_steps_phase_1" :> "50"
  @@ "train_num_warmup_steps_phase_2" :> "50"
  @@ "train_save_samples" :> "25000"
  @@ "train_seed" :> "42"
  @@ "train_max_batch_len" :> "2048"
  @@ "sdg_max_batch_len" :> "2048"
  @@ "sdg_sample_size" :> "1.0"
  @@ "sdg_pipeline" :> "/usr/share/instructlab/sdg/pipelines/simple"

\* The scripts whose submit_pipeline takes custom_params.
ParamScripts ==
  { "submit_pipeline", "submit_pipeline_fixed", "submit_pipeline_complete" }

params_table(s) ==
  CASE s = "submit_pipeline" -> default_params
    [] s = "submit_pipeline_fixed" -> cuda_fixed_params
    [] s = "submit_pipeline_storage_fixed" -> storage_fixed_params
    [] OTHER -> complete_training_params

\* argparse: --repo-url, --base-model, --output-model-name; an absent flag is
\* None, a flag can be given the empty string.
ArgNames == { "repo_url", "base_model", "output_model_name" }
ArgValues == { None, "", "custom" }
Args == [ ArgNames -> ArgValues ]

\* Python truth value of a flag: None and "" are false.
ArgGiven(v) == v # None /\ v # ""

\* The parameter a flag overrides.
param_of_arg(n) ==
  CASE n = "repo_url" -> "sdg_repo_url"
    [] n = "base_model" -> "sdg_base_model"
    [] OTHER -> "output_model_name"

\* main: custom_params = {}; if args.x: custom_params[...] = args.x
build_custom_params(a) ==
  LET given == { n \in ArgNames : ArgGiven(a[n]) }
  IN [ k \in { param_of_arg(n) : n \in given } |->
         a[CHOOSE n \in given : param_of_arg(n) = k] ]

\* main: custom_params=custom_params if custom_params else None
passed_custom_params(c) == [ is_none |-> DOMAIN c = {}, dict |-> c ]

\* A table that is replaced instead of updated.
dict_update_mut(d, c) == c

\* dict.update
dict_update(d, c) ==
  [ k \in DOMAIN d \cup DOMAIN c |-> IF k \in DOMAIN c THEN c[k] ELSE d[k] ]

\* submit_pipeline: if custom_params: table.update(custom_params);
\* payload["runtime_config"]["parameters"] = table
runtime_parameters(s, arg) ==
  IF s \in ParamScripts /\ ~arg.is_none /\ DOMAIN arg.dict # {}
    THEN dict_update(params_table(s), arg.dict)
    ELSE params_table(s)

\* A reference that names the pipeline twice.
version_reference_mut(pid, vid) ==
  [ pipeline_id |-> pid, pipeline_version_id |-> pid ]

\* payload["pipeline_version_reference"]
version_reference(pid, vid) ==
  [ pipeline_id |-> pid, pipeline_version_id |-> vid ]

NoReference == [ pipeline_id |-> None, pipeline_version_id |-> None ]

\* What `oc get route` prints for the namespace given with --namespace.
NamespaceRoutes == { "", "host", "host-of-another-namespace" }


\* ---------------------------------------------------------------- variables
VARIABLES
  script,            \* the script this run executes
  pc,                \* position in the script
  exit_status,       \* process exit status once pc = "exited"
  uncaught,          \* exception that escaped to the interpreter, or None
  token, dspa_host, pipeline_id, version_id, run_id,   \* locals of main / submit
  submit_ret,        \* what submit_pipeline returned (v2beta1 scripts)
  result,            \* what the monitoring function returned
  now,               \* time.time() - start_time, in seconds
  iteration,         \* monitor_production_pipeline: iteration
  monitoring_duration, \* submit_pipeline_complete: monitoring_duration
  last_status, last_progress,
  current_time_bound,  \* submit_pipeline_complete: is local current_time bound
  i,                 \* submit_pipeline_storage_fixed: loop index of range(20)
  steps,             \* history: the submission steps taken, in order
  ops,               \* the commands / requests the latest step sent out
  http_made,         \* history: some HTTP request was sent
  posts,             \* history: number of POSTs to the runs endpoint
  obs,               \* history: what the polls of this run have observed
  seen,              \* history: what the poll of the latest step observed
  slept,             \* history: length of the latest sleep (0: none yet)
  gap,               \* history: sleeps since the last poll (-1: no poll yet)
  kubeconfig, kube_token,  \* input and output of get_openshift_token
  args,              \* main: the parsed command line flags
  custom_params,     \* main: custom_params
  parameters,        \* submit_pipeline: payload.runtime_config.parameters
  pipeline_version_reference,  \* submit_pipeline: payload.pipeline_version_reference
  workflow_data,     \* analyze_workflow_progress: its argument
  progress_info,     \* analyze_workflow_progress: what it returned
  pipelines_response \* get_pipeline_info: what the pipelines request answers

mainVars == << token, dspa_host, pipeline_id, version_id, run_id, submit_ret >>
loopVars == << now, iteration, monitoring_duration, last_status, last_progress,
               current_time_bound, i >>
histVars == << steps, http_made, posts, obs, seen, slept, gap >>
kubeVars == << kubeconfig, kube_token >>
paramVars == << args, custom_params, parameters,
               pipeline_version_reference >>
snapVars == << workflow_data, progress_info, pipelines_response >>
vars == << script, pc, exit_status, uncaught, result, ops, mainVars, loopVars,
           histVars, kubeVars, paramVars, snapVars >>

NoObs == [ succeeded |-> FALSE, failure |-> FALSE, timeout |-> FALSE,
           interrupted |-> FALSE, unavailable |-> FALSE,
           command_failed |-> FALSE ]

\* What one poll observed: whether it got workflow data (a workflow object, a
\* parsable manifest, an output line with a status), the phase or status it
\* read, and whether a node was in phase Failed or in phase Error.
\* monitor_production_pipeline also notes whether the poll printed a status
\* update and the progress percentage it obtained (-1: none).
NoSeen == [ polled |-> FALSE, data |-> FALSE, phase |-> "",
            failed |-> FALSE, errored |-> FALSE,
            printed |-> FALSE, pct |-> -1 ]

Saw(data, phase, failed, errored) ==
  [ polled |-> TRUE, data |-> data, phase |-> phase,
    failed |-> failed, errored |-> errored,
    printed |-> FALSE, pct |-> -1 ]

SawProgress(s, printed, pct) == [ s EXCEPT !.printed = printed, !.pct = pct ]

EntryPc(s) ==
  CASE s = "monitor_production_pipeline" -> "mp_loop"
    [] s \in V1Scripts -> "v1_token"
    [] s \in V2Scripts -> "v2_token"
    [] OTHER -> "fg_entry"

\* submit_pipeline has not returned yet.
NotReturned == [arity |-> 0, success |-> FALSE, run_id |-> None]

InitCommon ==
  /\ exit_status = 0
  /\ uncaught = None
  /\ token = None /\ dspa_host = None /\ pipeline_id = None
  /\ version_id = None /\ run_id = None
  /\ submit_ret = NotReturned
  /\ result = "unset"
  /\ now = 0 /\ iteration = 1 /\ monitoring_duration = 0
  /\ last_status = None
  /\ last_progress = (IF script = "submit_pipeline_complete" THEN None ELSE -1)
  /\ current_time_bound = FALSE
  /\ i = 0
  /\ steps = << >> /\ ops = {} /\ http_made = FALSE /\ posts = 0
  /\ obs = NoObs
  /\ seen = NoSeen
  /\ slept = 0
  /\ gap = -1

\* ------------------------------------------------------------ shared steps
Exit(code) ==
  /\ pc' = "exited"
  /\ exit_status' = code
  /\ UNCHANGED uncaught

\* An exception nobody catches: traceback, process ends.
Crash(e) ==
  /\ pc' = "exited"
  /\ exit_status' = UncaughtExit(e)
  /\ uncaught' = e

Running == /\ UNCHANGED << exit_status, uncaught >>

\* The step sends nothing to the cluster.
NoOps == ops' = {}

\* A command or request sent to the cluster or the DSPA API.
Op(tool, verb, what, during) ==
  [tool |-> tool, verb |-> verb, what |-> what, during |-> during]

Observe(o, succeeded, failure, unavailable) ==
  [o EXCEPT !.succeeded = @ \/ succeeded,
            !.failure = @ \/ failure,
            !.unavailable = @ \/ unavailable]

\* A failed node or a failed workflow, as a poll sees it.
ShowsFailure(phase, nodes) ==
  phase \in {"Failed", "Error"} \/ Count(nodes, {"Failed", "Error"}) > 0

\* One poll begins: history keeping.
PollBegins(cmds) ==
  /\ gap' = 0
  /\ ops' = cmds

\* One sleep of d seconds ends: history keeping.
Sleeps(d) ==
  /\ slept' = d
  /\ seen' = NoSeen
  /\ gap' = gap + 1

\* ------------------------------------------- monitor_production_pipeline.py
\* A monitor that deletes the workflow it watches.
get_workflow_status_cmd_mut == Op("kubectl", "delete", "workflow", "monitor")

\* kubectl get workflow ... -o json
get_workflow_status_cmd == Op("kubectl", "get", "workflow", "monitor")

\* while time.time() - start_time < max_duration:
mp_while ==
  /\ script = "monitor_production_pipeline" /\ pc = "mp_loop"
  /\ IF now < max_duration
       THEN /\ pc' = "mp_poll"
            /\ UNCHANGED << result, obs, seen >>
       ELSE /\ pc' = "mp_main"
            /\ result' = "None"
            /\ obs' = [obs EXCEPT !.timeout = TRUE]
            /\ UNCHANGED seen
  /\ Running
  /\ UNCHANGED << script, mainVars, loopVars, kubeVars, paramVars, snapVars >>
  /\ UNCHANGED << steps, http_made, posts, slept, gap >>
  /\ NoOps

\* The value monitor_pipeline returns from inside the try body at this poll,
\* or "continue" when the body goes on to its sleep.
mp_poll_return(info, last, iter) ==
  IF ~should_print(info, last, iter) THEN "continue"
  ELSE IF ~Truthy(print_status_update(info)) THEN "False"
  ELSE IF info.present /\ info.workflow_status \in TerminalPhases
    THEN (IF info.workflow_status = "Succeeded" THEN "True" ELSE "False")
  ELSE "continue"

\* The try body of one iteration, up to the sleep.
mp_poll ==
  /\ script = "monitor_production_pipeline" /\ pc = "mp_poll"
  /\ \E wd \in get_workflow_status_results :
       LET info == analyze_workflow_progress(wd)
           ret == mp_poll_return(info, last_progress, iteration)
           printed == should_print(info, last_progress, iteration)
       IN /\ seen' = IF ~wd.present
                       THEN SawProgress(Saw(FALSE, "", FALSE, FALSE), printed, -1)
                       ELSE SawProgress(Saw(TRUE, wd.phase,
                                            Count(wd.nodes, {"Failed"}) > 0,
                                            Count(wd.nodes, {"Error"}) > 0),
                                        printed, info.progress_pct)
          /\ obs' = Observe(obs,
                      wd.present /\ wd.phase = "Succeeded",
                      wd.present
                        /\ ShowsFailure(wd.phase, wd.nodes),
                      ~wd.present)
          /\ IF ret # "continue"
               THEN /\ result' = ret
                    /\ pc' = "mp_main"
                    /\ UNCHANGED last_progress
               ELSE /\ pc' = "mp_sleep"
                    /\ last_progress' =
                         IF should_print(info, last_progress, iteration)
                            /\ info.present
                           THEN info.progress_pct ELSE last_progress
                    /\ UNCHANGED result
  /\ PollBegins({get_workflow_status_cmd})
  /\ Running
  /\ UNCHANGED << script, mainVars, kubeVars, paramVars, snapVars >>
  /\ UNCHANGED << now, iteration, monitoring_duration, last_status,
                  current_time_bound, i >>
  /\ UNCHANGED << steps, http_made, posts, slept >>

\* An Exception escapes the try body (subprocess or JSON layer, a workflow
\* object that is no dict): the handler takes over.
mp_poll_raises ==
  /\ script = "monitor_production_pipeline" /\ pc = "mp_poll"
  /\ pc' = "mp_retry_sleep"
  /\ PollBegins({get_workflow_status_cmd})
  /\ Running
  /\ UNCHANGED << script, result, mainVars, loopVars, kubeVars, paramVars, snapVars >>
  /\ UNCHANGED << steps, http_made, posts, obs, slept >>
  /\ seen' = NoSeen

\* time.sleep(check_interval); iteration += 1
mp_sleep ==
  /\ script = "monitor_production_pipeline" /\ pc = "mp_sleep"
  /\ now' = now + check_interval
  /\ iteration' = iteration + 1
  /\ pc' = "mp_loop"
  /\ Sleeps(check_interval)
  /\ Running
  /\ UNCHANGED << script, result, mainVars, kubeVars, paramVars, snapVars >>
  /\ UNCHANGED << monitoring_duration, last_status, last_progress,
                  current_time_bound, i >>
  /\ UNCHANGED << steps, http_made, posts, obs >>
  /\ NoOps

\* except Exception: ... time.sleep(check_interval); iteration += 1
mp_retry_sleep ==
  /\ script = "monitor_production_pipeline" /\ pc = "mp_retry_sleep"
  /\ now' = now + check_interval
  /\ iteration' = iteration + 1
  /\ pc' = "mp_loop"
  /\ Sleeps(check_interval)
  /\ Running
  /\ UNCHANGED << script, result, mainVars, kubeVars, paramVars, snapVars >>
  /\ UNCHANGED << monitoring_duration, last_status, last_progress,
                  current_time_bound, i >>
  /\ UNCHANGED << steps, http_made, posts, obs >>
  /\ NoOps

\* Ctrl-C inside the try body (during the poll or the normal sleep):
\* except KeyboardInterrupt: return None
mp_interrupt ==
  /\ script = "monitor_production_pipeline" /\ pc \in {"mp_poll", "mp_sleep"}
  /\ result' = "None"
  /\ obs' = [obs EXCEPT !.interrupted = TRUE]
  /\ UNCHANGED seen
  /\ pc' = "mp_main"
  /\ Running
  /\ UNCHANGED << script, mainVars, loopVars, kubeVars, paramVars, snapVars >>
  /\ UNCHANGED << steps, http_made, posts, slept, gap >>
  /\ NoOps

\* Ctrl-C during the sleep of the `except Exception` handler: the sibling
\* `except KeyboardInterrupt` clause does not cover a handler, so the
\* interrupt leaves monitor_pipeline and the script.
mp_interrupt_in_handler ==
  /\ script = "monitor_production_pipeline" /\ pc = "mp_retry_sleep"
  /\ obs' = [obs EXCEPT !.interrupted = TRUE]
  /\ UNCHANGED seen
  /\ Crash("KeyboardInterrupt")
  /\ UNCHANGED << script, result, mainVars, loopVars, kubeVars, paramVars, snapVars >>
  /\ UNCHANGED << steps, http_made, posts, slept, gap >>
  /\ NoOps

\* The exit status a True / False / None monitoring result is turned into.
monitor_exit_status(r) ==
  IF r = "True" THEN 0 ELSE IF r = "False" THEN 1 ELSE 2

\* if __name__ == "__main__": result = monitor_pipeline(); sys.exit(...)
mp_main ==
  /\ script = "monitor_production_pipeline" /\ pc = "mp_main"
  /\ Exit(monitor_exit_status(result))
  /\ UNCHANGED << script, result, mainVars, loopVars, histVars, kubeVars, paramVars, snapVars >>
  /\ NoOps

\* ----------------- submit_pipeline_production.py, submit_pipeline_nfs_storage.py
\* The /apis/v1beta1/pipelines answer: the request or its decoding failed
\* (ok = FALSE), or the listed pipelines (empty when the key is missing).
DisplayNames == { "InstructLab", "My-INSTRUCTLAB-Pipeline", "Other" }

\* str.lower()
Lower(name) ==
  CASE name = "InstructLab" -> "instructlab"
    [] name = "My-INSTRUCTLAB-Pipeline" -> "my-instructlab-pipeline"
    [] OTHER -> "other"

\* 'instructlab' in s
ContainsInstructlab(lowered) ==
  lowered \in { "instructlab", "my-instructlab-pipeline" }

PipelineListings ==
  { [ok |-> FALSE], [ok |-> TRUE, pipelines |-> << >>] }
    \cup { [ok |-> TRUE, pipelines |-> << [id |-> "p1", display_name |-> d] >>] :
             d \in DisplayNames }

SetMin(S) == CHOOSE x \in S : \A y \in S : x <= y

\* The fallback after the loop: print(f"... {pipeline['display_name']}")
\* raises KeyError when the first pipeline has no display_name.
v1_fallback_raises(p) == p.display_name = Missing

\* 'instructlab' in pipeline.get('display_name', '').lower()
v1_matches(p) ==
  p.display_name # Missing /\ ContainsInstructlab(Lower(p.display_name))

v1_get_pipeline_info(response) ==
  IF ~response.ok THEN None
  ELSE IF response.pipelines = << >> THEN None
  ELSE LET hits == { k \in 1..Len(response.pipelines) :
                       v1_matches(response.pipelines[k]) }
       IN IF hits # {} THEN response.pipelines[SetMin(hits)].id
          ELSE IF v1_fallback_raises(response.pipelines[1]) THEN None
          ELSE response.pipelines[1].id

\* Python truth value of a value that is None or a non-empty string.
Has(v) == v # None

\* token = get_bearer_token(): `oc whoami --show-token`
v1_get_bearer_token ==
  /\ script \in V1Scripts /\ pc = "v1_token"
  /\ ops' = { Op("oc", "get", "token", "submit") }
  /\ \E outcome \in { "ok", "CalledProcessError", "FileNotFoundError" } :
       CASE outcome = "ok" ->
              /\ token' = "tok"
              /\ steps' = Append(steps, "authenticate")
              /\ pc' = "v1_route"
              /\ Running
         [] outcome = "CalledProcessError" ->
              /\ Exit(1)
              /\ UNCHANGED << token, steps >>
         [] OTHER ->
              /\ Crash(outcome)
              /\ UNCHANGED << token, steps >>
  /\ UNCHANGED << script, result, loopVars, kubeVars, paramVars, snapVars >>
  /\ UNCHANGED << dspa_host, pipeline_id, version_id, run_id, submit_ret >>
  /\ UNCHANGED << http_made, posts, obs, seen, slept, gap >>

\* if args.route: dspa_host = args.route
v1_route_given ==
  /\ script \in V1Scripts /\ pc = "v1_route"
  /\ dspa_host' = "host"
  /\ steps' = Append(steps, "locate_route")
  /\ pc' = "v1_pipeline"
  /\ Running
  /\ UNCHANGED << script, result, loopVars, kubeVars, paramVars, snapVars >>
  /\ UNCHANGED << token, pipeline_id, version_id, run_id, submit_ret >>
  /\ UNCHANGED << http_made, posts, obs, seen, slept, gap >>
  /\ NoOps

\* else: dspa_host = get_dspa_route(args.namespace): `oc get route ...`
v1_get_dspa_route ==
  /\ script \in V1Scripts /\ pc = "v1_route"
  /\ ops' = { Op("oc", "get", "route", "submit") }
  /\ \E outcome \in { "ok", "CalledProcessError", "FileNotFoundError" } :
       CASE outcome = "ok" ->
              /\ dspa_host' = "host"
              /\ steps' = Append(steps, "locate_route")
              /\ pc' = "v1_pipeline"
              /\ Running
         [] outcome = "CalledProcessError" ->
              /\ Exit(1)
              /\ UNCHANGED << dspa_host, steps >>
         [] OTHER ->
              /\ Crash(outcome)
              /\ UNCHANGED << dspa_host, steps >>
  /\ UNCHANGED << script, result, loopVars, kubeVars, paramVars, snapVars >>
  /\ UNCHANGED << token, pipeline_id, version_id, run_id, submit_ret >>
  /\ UNCHANGED << http_made, posts, obs, seen, slept, gap >>

\* main's test after get_pipeline_info: `if not pipeline_id: sys.exit(1)`
v1_main_accepts_pipeline(id) == Has(id)

\* pipeline_id = get_pipeline_info(...); if not pipeline_id: sys.exit(1)
v1_pipeline_info ==
  /\ script \in V1Scripts /\ pc = "v1_pipeline"
  /\ http_made' = TRUE
  /\ ops' = { Op("http", "GET", "pipelines", "submit") }
  /\ \E response \in PipelineListings :
       /\ pipeline_id' = v1_get_pipeline_info(response)
       /\ IF v1_main_accepts_pipeline(pipeline_id')
            THEN /\ steps' = Append(steps, "locate_pipeline")
                 /\ pc' = "v1_submit"
                 /\ Running
            ELSE /\ Exit(1)
                 /\ UNCHANGED steps
  /\ UNCHANGED << script, result, loopVars, kubeVars, paramVars, snapVars >>
  /\ UNCHANGED << token, dspa_host, version_id, run_id, submit_ret >>
  /\ UNCHANGED << posts, obs, seen, slept, gap >>

\* main without the run_id test.
v1_main_accepts_run_mut(id) == TRUE

\* main's test after submit_pipeline_run: `if not run_id: sys.exit(1)`
v1_main_accepts_run(id) == Has(id)

\* Where main goes once the run is submitted and monitoring was asked for.
v1_monitor_pc(s) ==
  IF s = "submit_pipeline_production" THEN "spp_loop" ELSE "nfs_poll"

\* run_id, run_name = submit_pipeline_run(...); if not run_id: sys.exit(1);
\* then the --no-monitor / --monitor test.
\* submit_pipeline_run builds pipeline_spec and POSTs it once; run_id is None
\* when the request raised or the answer carries no run.id.
v1_submit_pipeline_run ==
  /\ script \in V1Scripts /\ pc = "v1_submit"
  /\ http_made' = TRUE
  /\ posts' = posts + 1
  /\ ops' = { Op("http", "POST", "runs", "submit") }
  /\ steps' = steps \o << "build_payload", "post" >>
  /\ \E id \in { "r1", None }, monitor \in BOOLEAN :
       /\ run_id' = id
       /\ IF ~v1_main_accepts_run(id) THEN Exit(1)
          ELSE IF monitor THEN pc' = v1_monitor_pc(script) /\ Running
          ELSE Exit(0)
  /\ UNCHANGED << script, result, loopVars, kubeVars, paramVars, snapVars >>
  /\ UNCHANGED << token, dspa_host, pipeline_id, version_id, submit_ret >>
  /\ UNCHANGED << obs, seen, slept, gap >>

\* run_detail.pipeline_runtime.workflow_manifest of one GET /runs/{id} answer:
\* absent or empty, a string json.loads rejects, or a workflow with nodes.
Manifests ==
  { [kind |-> "absent"], [kind |-> "unparsable"] }
    \cup { [kind |-> "json", nodes |-> ns] : ns \in NodeLists }

get_run_cmd == Op("http", "GET", "run", "monitor")

\* What a poll of GET /runs/{id} observed.
SawRun(status, manifest) ==
  IF manifest.kind # "json" THEN Saw(FALSE, status, FALSE, FALSE)
  ELSE Saw(TRUE, status, Count(manifest.nodes, {"Failed"}) > 0,
           Count(manifest.nodes, {"Error"}) > 0)

\* completed_nodes counts Succeeded, Failed and Error.
run_progress_pct(nodes) ==
  progress_pct(Count(nodes, {"Succeeded", "Failed", "Error"}), Len(nodes))

\* while time.time() - start_time < max_duration:
spp_while ==
  /\ script = "submit_pipeline_production" /\ pc = "spp_loop"
  /\ IF now < max_duration
       THEN /\ pc' = "spp_poll"
            /\ UNCHANGED << result, obs, seen >>
       ELSE /\ pc' = "spp_main"
            /\ result' = "None"
            /\ obs' = [obs EXCEPT !.timeout = TRUE]
            /\ UNCHANGED seen
  /\ Running
  /\ UNCHANGED << script, mainVars, loopVars, kubeVars, paramVars, snapVars >>
  /\ UNCHANGED << steps, http_made, posts, slept, gap >>
  /\ NoOps

\* The value monitor_pipeline_run returns from inside the try body at this
\* poll, or "continue" when the body goes on to its sleep.
spp_poll_return(status, manifest, lstatus, lprogress) ==
  IF manifest.kind # "json" THEN "continue"
  ELSE IF (status # lstatus \/ run_progress_pct(manifest.nodes) # lprogress)
          /\ Count(manifest.nodes, {"Failed"}) > 0 THEN "False"
  ELSE IF status \in TerminalPhases
    THEN (IF status = "Succeeded" THEN "True" ELSE "False")
  ELSE "continue"

\* The try body of one iteration of monitor_pipeline_run, up to the sleep.
spp_poll ==
  /\ script = "submit_pipeline_production" /\ pc = "spp_poll"
  /\ \E status \in WorkflowPhases, manifest \in Manifests :
       LET ret == spp_poll_return(status, manifest, last_status, last_progress)
           changed == /\ manifest.kind = "json"
                      /\ \/ status # last_status
                         \/ run_progress_pct(manifest.nodes) # last_progress
       IN /\ seen' = SawRun(status, manifest)
          /\ obs' = Observe(obs, status = "Succeeded",
                      \/ status \in {"Failed", "Error"}
                      \/ /\ manifest.kind = "json"
                         /\ Count(manifest.nodes, {"Failed", "Error"}) > 0,
                      FALSE)
          /\ IF ret # "continue"
               THEN result' = ret /\ pc' = "spp_main"
               ELSE pc' = "spp_sleep" /\ UNCHANGED result
          /\ IF changed /\ Count(manifest.nodes, {"Failed"}) = 0
               THEN /\ last_status' = status
                    /\ last_progress' = run_progress_pct(manifest.nodes)
               ELSE UNCHANGED << last_status, last_progress >>
  /\ PollBegins({get_run_cmd})
  /\ http_made' = TRUE
  /\ Running
  /\ UNCHANGED << script, mainVars, kubeVars, paramVars, snapVars >>
  /\ UNCHANGED << now, iteration, monitoring_duration, current_time_bound, i >>
  /\ UNCHANGED << steps, posts, slept >>

\* An Exception escapes the try body (connection error, HTTP error status,
\* undecodable answer): the handler takes over.
spp_poll_raises ==
  /\ script = "submit_pipeline_production" /\ pc = "spp_poll"
  /\ pc' = "spp_retry_sleep"
  /\ PollBegins({get_run_cmd})
  /\ http_made' = TRUE
  /\ Running
  /\ UNCHANGED << script, result, mainVars, loopVars, kubeVars, paramVars, snapVars >>
  /\ UNCHANGED << steps, posts, obs, slept >>
  /\ seen' = NoSeen

\* time.sleep(check_interval)
spp_sleep ==
  /\ script = "submit_pipeline_production" /\ pc = "spp_sleep"
  /\ now' = now + check_interval
  /\ pc' = "spp_loop"
  /\ Sleeps(check_interval)
  /\ Running
  /\ UNCHANGED << script, result, mainVars, kubeVars, paramVars, snapVars >>
  /\ UNCHANGED << iteration, monitoring_duration, last_status, last_progress,
                  current_time_bound, i >>
  /\ UNCHANGED << steps, http_made, posts, obs >>
  /\ NoOps

\* except Exception: ... time.sleep(check_interval)
spp_retry_sleep ==
  /\ script = "submit_pipeline_production" /\ pc = "spp_retry_sleep"
  /\ now' = now + check_interval
  /\ pc' = "spp_loop"
  /\ Sleeps(check_interval)
  /\ Running
  /\ UNCHANGED << script, result, mainVars, kubeVars, paramVars, snapVars >>
  /\ UNCHANGED << iteration, monitoring_duration, last_status, last_progress,
                  current_time_bound, i >>
  /\ UNCHANGED << steps, http_made, posts, obs >>
  /\ NoOps

\* Ctrl-C inside the try body: except KeyboardInterrupt: break, and the
\* function returns None after the loop.
spp_interrupt ==
  /\ script = "submit_pipeline_production" /\ pc \in {"spp_poll", "spp_sleep"}
  /\ result' = "None"
  /\ obs' = [obs EXCEPT !.interrupted = TRUE]
  /\ UNCHANGED seen
  /\ pc' = "spp_main"
  /\ Running
  /\ UNCHANGED << script, mainVars, loopVars, kubeVars, paramVars, snapVars >>
  /\ UNCHANGED << steps, http_made, posts, slept, gap >>
  /\ NoOps

\* Ctrl-C during the sleep of the `except Exception` handler escapes.
spp_interrupt_in_handler ==
  /\ script = "submit_pipeline_production" /\ pc = "spp_retry_sleep"
  /\ obs' = [obs EXCEPT !.interrupted = TRUE]
  /\ UNCHANGED seen
  /\ Crash("KeyboardInterrupt")
  /\ UNCHANGED << script, result, mainVars, loopVars, kubeVars, paramVars, snapVars >>
  /\ UNCHANGED << steps, http_made, posts, slept, gap >>
  /\ NoOps

\* success = monitor_pipeline_run(...); sys.exit(0 / 1 / 2)
spp_main ==
  /\ script = "submit_pipeline_production" /\ pc = "spp_main"
  /\ Exit(monitor_exit_status(result))
  /\ UNCHANGED << script, result, mainVars, loopVars, histVars, kubeVars, paramVars, snapVars >>
  /\ NoOps

\* submit_pipeline_nfs_storage.monitor_pipeline_run: the try body of one
\* iteration of `while True`, up to the sleep.  A terminal run status ends
\* the loop (break) only when the manifest was present and parsed.
nfs_poll_breaks(status, manifest) ==
  manifest.kind = "json" /\ status \in TerminalPhases

nfs_poll ==
  /\ script = "submit_pipeline_nfs_storage" /\ pc = "nfs_poll"
  /\ \E status \in WorkflowPhases, manifest \in Manifests :
       /\ seen' = SawRun(status, manifest)
       /\ obs' = Observe(obs, status = "Succeeded",
                   \/ status \in {"Failed", "Error"}
                   \/ /\ manifest.kind = "json"
                      /\ Count(manifest.nodes, {"Failed", "Error"}) > 0,
                   FALSE)
       /\ last_status' = IF manifest.kind = "json" THEN status ELSE last_status
       /\ IF nfs_poll_breaks(status, manifest)
            THEN result' = "None" /\ pc' = "nfs_main"
            ELSE pc' = "nfs_sleep" /\ UNCHANGED result
  /\ PollBegins({get_run_cmd})
  /\ http_made' = TRUE
  /\ Running
  /\ UNCHANGED << script, mainVars, kubeVars, paramVars, snapVars >>
  /\ UNCHANGED << now, iteration, monitoring_duration, last_progress,
                  current_time_bound, i >>
  /\ UNCHANGED << steps, posts, slept >>

nfs_poll_raises ==
  /\ script = "submit_pipeline_nfs_storage" /\ pc = "nfs_poll"
  /\ pc' = "nfs_retry_sleep"
  /\ PollBegins({get_run_cmd})
  /\ http_made' = TRUE
  /\ Running
  /\ UNCHANGED << script, result, mainVars, loopVars, kubeVars, paramVars, snapVars >>
  /\ UNCHANGED << steps, posts, obs, slept >>
  /\ seen' = NoSeen

\* time.sleep(30)  # Check every 30 seconds
nfs_sleep ==
  /\ script = "submit_pipeline_nfs_storage" /\ pc = "nfs_sleep"
  /\ pc' = "nfs_poll"
  /\ Sleeps(nfs_poll_sleep)
  /\ Running
  /\ UNCHANGED << script, result, mainVars, loopVars, kubeVars, paramVars, snapVars >>
  /\ UNCHANGED << steps, http_made, posts, obs >>
  /\ NoOps

\* except Exception: ... time.sleep(60)
nfs_retry ==
  /\ script = "submit_pipeline_nfs_storage" /\ pc = "nfs_retry_sleep"
  /\ pc' = "nfs_poll"
  /\ Sleeps(nfs_retry_sleep)
  /\ Running
  /\ UNCHANGED << script, result, mainVars, loopVars, kubeVars, paramVars, snapVars >>
  /\ UNCHANGED << steps, http_made, posts, obs >>
  /\ NoOps

\* except KeyboardInterrupt: break
nfs_interrupt ==
  /\ script = "submit_pipeline_nfs_storage" /\ pc \in {"nfs_poll", "nfs_sleep"}
  /\ result' = "None"
  /\ obs' = [obs EXCEPT !.interrupted = TRUE]
  /\ UNCHANGED seen
  /\ pc' = "nfs_main"
  /\ Running
  /\ UNCHANGED << script, mainVars, loopVars, kubeVars, paramVars, snapVars >>
  /\ UNCHANGED << steps, http_made, posts, slept, gap >>
  /\ NoOps

nfs_interrupt_in_handler ==
  /\ script = "submit_pipeline_nfs_storage" /\ pc = "nfs_retry_sleep"
  /\ obs' = [obs EXCEPT !.interrupted = TRUE]
  /\ UNCHANGED seen
  /\ Crash("KeyboardInterrupt")
  /\ UNCHANGED << script, result, mainVars, loopVars, kubeVars, paramVars, snapVars >>
  /\ UNCHANGED << steps, http_made, posts, slept, gap >>
  /\ NoOps

\* monitor_pipeline_run returned; main ends, exit status 0.
nfs_main ==
  /\ script = "submit_pipeline_nfs_storage" /\ pc = "nfs_main"
  /\ Exit(0)
  /\ UNCHANGED << script, result, mainVars, loopVars, histVars, kubeVars, paramVars, snapVars >>
  /\ NoOps

\* ----------------------------------------------------- get_openshift_token
\* ~/.kube/config as get_openshift_token reads it.  file: the file is missing,
\* is not YAML, is empty (safe_load gives None), or holds a mapping.  An entry
\* of contexts lacks its name key ("Missing"), or names a context whose
\* context.user is there or not; an entry of users lacks its name key, or has
\* a user mapping with a token, one without, or no mapping at all
\* ("Malformed").  A missing contexts / users key is the empty list.
NoToken == "NoToken"
Malformed == "Malformed"
KubeTokens == { "tokA", "tokB" }

ContextEntries ==
  { [name |-> Missing, user |-> Missing] }
    \cup [name : {"c1", "c2"}, user : {"u1", "u2", Missing}]

UserEntries ==
  { [name |-> Missing, token |-> NoToken] }
    \cup [name : {"u1"}, token : KubeTokens \cup {NoToken, Malformed}]
    \cup [name : {"u2"}, token : {"tokA", NoToken}]

SeqsUpTo(S, n) == UNION { [1..k -> S] : k \in 0..n }

Kubeconfigs ==
  { [file |-> f, current_context |-> None, contexts |-> << >>, users |-> << >>] :
      f \in {"missing", "not-yaml", "empty"} }
    \cup [ file : {"ok"}, current_context : {None, "c1"},
           contexts : SeqsUpTo(ContextEntries, MaxEntries),
           users : SeqsUpTo(UserEntries, MaxEntries) ]

\* Index of the first entry of s at which the scan of a `for` loop stops
\* (it matches, or evaluating the test raises); 0 when the loop runs out.
FirstStop(s, Stops(_)) ==
  IF \E k \in 1..Len(s) : Stops(s[k])
    THEN SetMin({ k \in 1..Len(s) : Stops(s[k]) })
    ELSE 0

\* The try body of get_openshift_token: the value it returns, or "raise"
\* when an exception leaves it.
kube_try_body(kc) ==
  IF kc.file # "ok" THEN "raise"
  ELSE IF kc.current_context = None THEN None
  ELSE
    LET k == FirstStop(kc.contexts,
                LAMBDA c : c.name = Missing \/ c.name = kc.current_context)
    IN IF k = 0 THEN None
       ELSE IF kc.contexts[k].name = Missing \/ kc.contexts[k].user = Missing
         THEN "raise"
       ELSE
         LET user_name == kc.contexts[k].user
             j == FirstStop(kc.users,
                    LAMBDA u : \/ u.name = Missing
                               \/ (u.name = user_name /\ u.token # NoToken))
         IN IF j = 0 THEN None
            ELSE IF kc.users[j].name = Missing \/ kc.users[j].token = Malformed
              THEN "raise"
            ELSE kc.users[j].token

\* get_openshift_token without its except clause.
get_openshift_token_mut(kc) == kube_try_body(kc)

\* try: ... except Exception as e: print(...); return None
get_openshift_token(kc) ==
  IF kube_try_body(kc) = "raise" THEN None ELSE kube_try_body(kc)

\* --- submit_pipeline.py, submit_pipeline_fixed.py, submit_pipeline_complete.py,
\* --- submit_pipeline_storage_fixed.py: submit_pipeline and main
\* What submit_pipeline returns: one value (arity 1) or a (success, run_id) pair.
Single(success) == [arity |-> 1, success |-> success, run_id |-> None]
Pair(success, id) == [arity |-> 2, success |-> success, run_id |-> id]

\* The three early `return False` / `return False, None` of submit_pipeline.
early_failure(s) ==
  IF s = "submit_pipeline_storage_fixed" THEN Pair(FALSE, None) ELSE Single(FALSE)

\* The returns around the POST.
post_failure(s) ==
  IF s \in {"submit_pipeline_complete", "submit_pipeline_storage_fixed"}
    THEN Pair(FALSE, None) ELSE Single(FALSE)

post_success(s, id) ==
  IF s \in {"submit_pipeline_complete", "submit_pipeline_storage_fixed"}
    THEN Pair(TRUE, id) ELSE Single(TRUE)

\* main unpacks `success, run_id = submit_pipeline(...)` in these scripts.
main_unpacks(s) ==
  s \in {"submit_pipeline_complete", "submit_pipeline_storage_fixed"}

\* submit_pipeline's test `if not token:`
v2_accepts_token(t) == Has(t)

\* token = get_openshift_token(); if not token: return False
v2_get_token ==
  /\ script \in V2Scripts /\ pc = "v2_token"
  /\ \E kc \in Kubeconfigs :
       /\ token' = get_openshift_token(kc)
       /\ IF v2_accepts_token(token')
            THEN /\ steps' = Append(steps, "authenticate")
                 /\ pc' = "v2_url"
                 /\ UNCHANGED submit_ret
            ELSE /\ submit_ret' = early_failure(script)
                 /\ pc' = "v2_main"
                 /\ UNCHANGED steps
  /\ Running /\ NoOps
  /\ UNCHANGED << script, result, loopVars, kubeVars, paramVars, snapVars >>
  /\ UNCHANGED << dspa_host, pipeline_id, version_id, run_id >>
  /\ UNCHANGED << http_made, posts, obs, seen, slept, gap >>

\* if use_port_forward: dspa_url = "https://localhost:8888"
v2_port_forward ==
  /\ script \in V2Scripts /\ pc = "v2_url"
  /\ dspa_host' = "https://localhost:8888"
  /\ steps' = Append(steps, "locate_route")
  /\ pc' = "v2_pipeline"
  /\ Running /\ NoOps
  /\ UNCHANGED << script, result, loopVars, kubeVars, paramVars, snapVars >>
  /\ UNCHANGED << token, pipeline_id, version_id, run_id, submit_ret >>
  /\ UNCHANGED << http_made, posts, obs, seen, slept, gap >>

\* get_dspa_info: `oc get route ... 2>/dev/null` through os.popen; an empty
\* output (also when oc fails) gives None.
get_dspa_info(route) == IF route = "" THEN None ELSE "https://" \o route

\* else: dspa_url = get_dspa_info(namespace); if not dspa_url: return False
v2_route ==
  /\ script \in V2Scripts /\ pc = "v2_url"
  /\ ops' = { Op("oc", "get", "route", "submit") }
  /\ \E route \in { "", "host" } :
       /\ dspa_host' = get_dspa_info(route)
       /\ IF Has(dspa_host')
            THEN /\ steps' = Append(steps, "locate_route")
                 /\ pc' = "v2_pipeline"
                 /\ UNCHANGED submit_ret
            ELSE /\ submit_ret' = early_failure(script)
                 /\ pc' = "v2_main"
                 /\ UNCHANGED steps
  /\ Running
  /\ UNCHANGED << script, result, loopVars, kubeVars, paramVars, snapVars >>
  /\ UNCHANGED << token, pipeline_id, version_id, run_id >>
  /\ UNCHANGED << http_made, posts, obs, seen, slept, gap >>

\* The /apis/v2beta1/pipelines answer and, per pipeline, the answer of its
\* versions request.  status is 200, another status, or "raises".
V2Versions ==
  { [status |-> "raises", ids |-> << >>], [status |-> "500", ids |-> << >>],
    [status |-> "200", ids |-> << >>], [status |-> "200", ids |-> << "v1" >>],
    [status |-> "200", ids |-> << None >>] }

V2Pipelines ==
  [ display_name : {"InstructLab", "Other"}, pipeline_id : {"p1"},
    versions : V2Versions ]

V2Listings ==
  { [status |-> "raises", pipelines |-> << >>],
    [status |-> "500", pipelines |-> << >>],
    [status |-> "200", pipelines |-> << >>] }
    \cup { [status |-> "200", pipelines |-> << p >>] : p \in V2Pipelines }

NoPipeline == [pipeline_id |-> None, version_id |-> None]

\* A scan that asks for the versions of every listed pipeline.
v2_scan_stops_mut(p) ==
  \/ p.versions.status = "raises"
  \/ p.versions.status = "200" /\ p.versions.ids # << >>

\* A listed pipeline whose versions request is made and ends the scan: it
\* raises, or it answers 200 with a non-empty list.
v2_scan_stops(p) ==
  /\ p.display_name = "InstructLab"
  /\ \/ p.versions.status = "raises"
     \/ p.versions.status = "200" /\ p.versions.ids # << >>

v2_get_pipeline_info(listing) ==
  IF listing.status # "200" THEN NoPipeline
  ELSE LET k == FirstStop(listing.pipelines, v2_scan_stops)
       IN IF k = 0 THEN NoPipeline
          ELSE IF listing.pipelines[k].versions.status = "raises" THEN NoPipeline
          ELSE [ pipeline_id |-> listing.pipelines[k].pipeline_id,
                 version_id |-> listing.pipelines[k].versions.ids[1] ]

\* The test with its version half forgotten.
v2_accepts_pipeline_mut(pid, vid) == Has(pid)

\* submit_pipeline's test `if not pipeline_id or not version_id:`
v2_accepts_pipeline(pid, vid) == Has(pid) /\ Has(vid)

\* pipeline_id, version_id = get_pipeline_info(dspa_url, headers); test
v2_pipeline_info ==
  /\ script \in V2Scripts /\ pc = "v2_pipeline"
  /\ http_made' = TRUE
  /\ ops' = { Op("http", "GET", "pipelines", "submit"),
              Op("http", "GET", "versions", "submit") }
  /\ \E listing \in V2Listings :
       LET info == v2_get_pipeline_info(listing)
       IN /\ pipeline_id' = info.pipeline_id
          /\ version_id' = info.version_id
          /\ IF v2_accepts_pipeline(info.pipeline_id, info.version_id)
               THEN /\ steps' = Append(steps, "locate_pipeline")
                    /\ pc' = "v2_submit"
                    /\ UNCHANGED submit_ret
               ELSE /\ submit_ret' = early_failure(script)
                    /\ pc' = "v2_main"
                    /\ UNCHANGED steps
  /\ Running
  /\ UNCHANGED << script, result, loopVars, kubeVars, paramVars, snapVars >>
  /\ UNCHANGED << token, dspa_host, run_id >>
  /\ UNCHANGED << posts, obs, seen, slept, gap >>

\* submit_pipeline.py:213: after a 200/201 the success message calls
\* get_dspa_info again when the route is used, and .split on a None result
\* raises inside the try (-> return False).
reads_route_again(s, host) ==
  s = "submit_pipeline" /\ host # "https://localhost:8888"

\* Build the payload and POST it once; 200/201 -> success, another status or
\* an exception -> failure.
v2_post ==
  /\ script \in V2Scripts /\ pc = "v2_submit"
  /\ http_made' = TRUE
  /\ posts' = posts + 1
  /\ steps' = steps \o << "build_payload", "post" >>
  /\ pc' = "v2_main"
  /\ \E answer \in { "200", "500", "raises" } :
       IF answer # "200"
         THEN /\ submit_ret' = post_failure(script)
              /\ ops' = { Op("http", "POST", "runs", "submit") }
         ELSE \E route \in { "", "host" } :
                /\ ops' = { Op("http", "POST", "runs", "submit") }
                            \cup IF reads_route_again(script, dspa_host)
                                   THEN { Op("oc", "get", "route", "submit") }
                                   ELSE {}
                /\ submit_ret' =
                     IF reads_route_again(script, dspa_host)
                        /\ get_dspa_info(route) = None
                       THEN post_failure(script)
                       ELSE post_success(script, "r1")
  /\ Running
  /\ UNCHANGED << script, result, loopVars, kubeVars, paramVars, snapVars >>
  /\ UNCHANGED << token, dspa_host, pipeline_id, version_id, run_id >>
  /\ UNCHANGED << obs, seen, slept, gap >>

\* Where main goes after a successful submission with --monitor.
v2_monitor_pc(s) ==
  IF s = "submit_pipeline_complete" THEN "spc_find" ELSE "sf_loop"

\* main: [success, run_id =] submit_pipeline(...); if not success: sys.exit(1);
\* then `if args.monitor:` where the script has the flag.
v2_main ==
  /\ script \in V2Scripts /\ pc = "v2_main"
  /\ IF main_unpacks(script) /\ submit_ret.arity # 2
       THEN /\ Crash("TypeError")
            /\ UNCHANGED run_id
       ELSE /\ run_id' = submit_ret.run_id
            /\ IF ~submit_ret.success THEN Exit(1)
               ELSE IF ~main_unpacks(script) THEN Exit(0)
               ELSE \E monitor \in BOOLEAN :
                      IF monitor THEN pc' = v2_monitor_pc(script) /\ Running
                      ELSE Exit(0)
  /\ NoOps
  /\ UNCHANGED << script, result, loopVars, histVars, kubeVars, paramVars, snapVars >>
  /\ UNCHANGED << token, dspa_host, pipeline_id, version_id, submit_ret >>

\* ------------------------------- submit_pipeline_complete.monitor_pipeline
\* Output of a `kubectl ... -o jsonpath=...` read through os.popen: the
\* empty string when the field is unset or the command failed.
StatusOutputs == { "" } \cup (WorkflowPhases \ {"Unknown"})
ProgressOutputs == { "", "0/1", "1/1" }

spc_find_cmd == Op("kubectl", "get", "workflow", "monitor")
\* status, progress and message of the workflow, and the PyTorchJobs count
spc_poll_cmds ==
  { Op("kubectl", "get", "workflow", "monitor"),
    Op("kubectl", "get", "pytorchjobs", "monitor") }

\* Find the workflow by its pipeline/runid label;
\* if not workflow_name: return False.  Then the loop's locals are set.
spc_find_workflow ==
  /\ script = "submit_pipeline_complete" /\ pc = "spc_find"
  /\ ops' = { spc_find_cmd }
  /\ \E workflow_name \in { "", "wf" } :
       IF workflow_name = ""
         THEN /\ result' = "False"
              /\ pc' = "spc_main"
              /\ UNCHANGED << monitoring_duration, last_status, last_progress >>
         ELSE /\ pc' = "spc_loop"
              /\ monitoring_duration' = 0
              /\ last_status' = None
              /\ last_progress' = None
              /\ UNCHANGED result
  /\ Running
  /\ UNCHANGED << script, mainVars, histVars, kubeVars, paramVars, snapVars >>
  /\ UNCHANGED << now, iteration, current_time_bound, i >>

\* while monitoring_duration < max_monitoring_time:
spc_while ==
  /\ script = "submit_pipeline_complete" /\ pc = "spc_loop"
  /\ IF monitoring_duration < max_monitoring_time
       THEN /\ pc' = "spc_poll"
            /\ UNCHANGED << result, obs, seen >>
       ELSE /\ pc' = "spc_main"
            /\ result' = "False"
            /\ obs' = [obs EXCEPT !.timeout = TRUE]
            /\ UNCHANGED seen
  /\ Running /\ NoOps
  /\ UNCHANGED << script, mainVars, loopVars, kubeVars, paramVars, snapVars >>
  /\ UNCHANGED << steps, http_made, posts, slept, gap >>

\* A monitor that takes every final phase for a success.
spc_poll_return_mut(status, progress, lstatus, lprogress) ==
  IF status \in TerminalPhases THEN "True" ELSE "continue"

\* The value monitor_pipeline returns from inside the try body at this poll,
\* or "continue".
spc_poll_return(status, progress, lstatus, lprogress) ==
  IF (status # lstatus \/ progress # lprogress) /\ status \in TerminalPhases
    THEN (IF status = "Succeeded" THEN "True" ELSE "False")
    ELSE "continue"

\* The try body of one iteration, up to the sleep, when nothing raises.
spc_poll ==
  /\ script = "submit_pipeline_complete" /\ pc = "spc_poll"
  /\ \E status \in StatusOutputs, progress \in ProgressOutputs :
       LET ret == spc_poll_return(status, progress, last_status, last_progress)
       IN /\ seen' = Saw(status # "", status, FALSE, FALSE)
          /\ obs' = Observe(obs, status = "Succeeded",
                            status \in {"Failed", "Error"}, status = "")
          /\ IF ret # "continue"
               THEN /\ result' = ret
                    /\ pc' = "spc_main"
                    /\ UNCHANGED << last_status, last_progress >>
               ELSE /\ pc' = "spc_sleep"
                    /\ last_status' = status
                    /\ last_progress' = progress
                    /\ UNCHANGED result
  /\ current_time_bound' = TRUE
  /\ PollBegins(spc_poll_cmds)
  /\ Running
  /\ UNCHANGED << script, mainVars, kubeVars, paramVars, snapVars >>
  /\ UNCHANGED << now, iteration, monitoring_duration, i >>
  /\ UNCHANGED << steps, http_made, posts, slept >>

\* What the `except Exception` handler does: its first statement formats
\* current_time, which is only bound once some iteration has got past the
\* three reads; unbound, the handler itself raises UnboundLocalError.
spc_handler_survives(bound) == bound

\* An Exception escapes the try body, before (early) or after current_time
\* is assigned in this iteration.
spc_poll_raises ==
  /\ script = "submit_pipeline_complete" /\ pc = "spc_poll"
  /\ PollBegins(spc_poll_cmds)
  /\ \E early \in BOOLEAN :
       /\ current_time_bound' = (current_time_bound \/ ~early)
       /\ IF spc_handler_survives(current_time_bound')
            THEN pc' = "spc_retry_sleep" /\ Running
            ELSE Crash("UnboundLocalError")
  /\ UNCHANGED << script, result, mainVars, kubeVars, paramVars, snapVars >>
  /\ UNCHANGED << now, iteration, monitoring_duration, last_status,
                  last_progress, i >>
  /\ UNCHANGED << steps, http_made, posts, obs, slept >>
  /\ seen' = NoSeen

\* time.sleep(check_interval); monitoring_duration += check_interval
spc_sleep ==
  /\ script = "submit_pipeline_complete" /\ pc = "spc_sleep"
  /\ monitoring_duration' = monitoring_duration + complete_check_interval
  /\ pc' = "spc_loop"
  /\ Sleeps(complete_check_interval)
  /\ Running /\ NoOps
  /\ UNCHANGED << script, result, mainVars, kubeVars, paramVars, snapVars >>
  /\ UNCHANGED << now, iteration, last_status, last_progress,
                  current_time_bound, i >>
  /\ UNCHANGED << steps, http_made, posts, obs >>

\* A handler that backs off twice as long.
spc_retry_delay_mut == 2 * complete_check_interval

\* The handler's time.sleep(check_interval)
spc_retry_delay == complete_check_interval

\* except Exception: print; time.sleep(check_interval); monitoring_duration += ...
spc_retry_sleep ==
  /\ script = "submit_pipeline_complete" /\ pc = "spc_retry_sleep"
  /\ monitoring_duration' = monitoring_duration + complete_check_interval
  /\ pc' = "spc_loop"
  /\ Sleeps(spc_retry_delay)
  /\ Running /\ NoOps
  /\ UNCHANGED << script, result, mainVars, kubeVars, paramVars, snapVars >>
  /\ UNCHANGED << now, iteration, last_status, last_progress,
                  current_time_bound, i >>
  /\ UNCHANGED << steps, http_made, posts, obs >>

\* except KeyboardInterrupt: return False
spc_interrupt ==
  /\ script = "submit_pipeline_complete" /\ pc \in {"spc_poll", "spc_sleep"}
  /\ result' = "False"
  /\ obs' = [obs EXCEPT !.interrupted = TRUE]
  /\ UNCHANGED seen
  /\ pc' = "spc_main"
  /\ Running /\ NoOps
  /\ UNCHANGED << script, mainVars, loopVars, kubeVars, paramVars, snapVars >>
  /\ UNCHANGED << steps, http_made, posts, slept, gap >>

spc_interrupt_in_handler ==
  /\ script = "submit_pipeline_complete" /\ pc = "spc_retry_sleep"
  /\ obs' = [obs EXCEPT !.interrupted = TRUE]
  /\ UNCHANGED seen
  /\ Crash("KeyboardInterrupt")
  /\ NoOps
  /\ UNCHANGED << script, result, mainVars, loopVars, kubeVars, paramVars, snapVars >>
  /\ UNCHANGED << steps, http_made, posts, slept, gap >>

\* success = monitor_pipeline(...); a message either way; main ends.
spc_main ==
  /\ script = "submit_pipeline_complete" /\ pc = "spc_main"
  /\ Exit(0)
  /\ NoOps
  /\ UNCHANGED << script, result, mainVars, loopVars, histVars, kubeVars, paramVars, snapVars >>

\* ---------------------- submit_pipeline_storage_fixed.monitor_pipeline_simple
\* The last line of `kubectl get workflows --no-headers | tail -1`: empty,
\* a single field, or name, status and age.
WorkflowLines ==
  { [fields |-> 0, status |-> ""], [fields |-> 1, status |-> ""] }
    \cup { [fields |-> 3, status |-> st] : st \in WorkflowPhases \ {"Unknown"} }

sf_poll_cmd == Op("kubectl", "get", "workflow", "monitor")

\* for i in range(20):
sf_for ==
  /\ script = "submit_pipeline_storage_fixed" /\ pc = "sf_loop"
  /\ IF i < simple_polls
       THEN pc' = "sf_poll" /\ UNCHANGED result
       ELSE pc' = "sf_main" /\ result' = "None"
  /\ Running /\ NoOps
  /\ UNCHANGED << script, mainVars, loopVars, histVars, kubeVars, paramVars, snapVars >>

\* The try body of one iteration, up to the sleep.  parts[1] of a line with
\* one field raises IndexError, which the handler catches.
\* A loop that only stops on success.
sf_poll_breaks_mut(line) == line.fields > 1 /\ line.status = "Succeeded"

\* if status in ["Succeeded", "Failed", "Error"]: ... break
sf_poll_breaks(line) == line.fields > 1 /\ line.status \in TerminalPhases

sf_poll ==
  /\ script = "submit_pipeline_storage_fixed" /\ pc = "sf_poll"
  /\ \E line \in WorkflowLines :
       /\ seen' = Saw(line.fields > 1, line.status, FALSE, FALSE)
       /\ obs' = Observe(obs, line.status = "Succeeded",
                         line.status \in {"Failed", "Error"}, line.fields = 0)
       /\ IF line.fields = 1 THEN pc' = "sf_retry_sleep" /\ UNCHANGED result
          ELSE IF sf_poll_breaks(line)
            THEN pc' = "sf_main" /\ result' = "None"
          ELSE pc' = "sf_sleep" /\ UNCHANGED result
  /\ PollBegins({sf_poll_cmd})
  /\ Running
  /\ UNCHANGED << script, mainVars, loopVars, kubeVars, paramVars, snapVars >>
  /\ UNCHANGED << steps, http_made, posts, slept >>

\* Any other Exception in the try body (os.popen or read failing).
sf_poll_raises ==
  /\ script = "submit_pipeline_storage_fixed" /\ pc = "sf_poll"
  /\ pc' = "sf_retry_sleep"
  /\ PollBegins({sf_poll_cmd})
  /\ Running
  /\ UNCHANGED << script, result, mainVars, loopVars, kubeVars, paramVars, snapVars >>
  /\ UNCHANGED << steps, http_made, posts, obs, slept >>
  /\ seen' = NoSeen

\* time.sleep(30), in the try body or in the handler; next i.
sf_sleep ==
  /\ script = "submit_pipeline_storage_fixed"
  /\ pc \in {"sf_sleep", "sf_retry_sleep"}
  /\ i' = i + 1
  /\ pc' = "sf_loop"
  /\ Sleeps(simple_sleep)
  /\ Running /\ NoOps
  /\ UNCHANGED << script, result, mainVars, kubeVars, paramVars, snapVars >>
  /\ UNCHANGED << now, iteration, monitoring_duration, last_status,
                  last_progress, current_time_bound >>
  /\ UNCHANGED << steps, http_made, posts, obs >>

\* Ctrl-C anywhere in the loop: monitor_pipeline_simple has no handler for it.
sf_interrupt ==
  /\ script = "submit_pipeline_storage_fixed"
  /\ pc \in {"sf_poll", "sf_sleep", "sf_retry_sleep"}
  /\ obs' = [obs EXCEPT !.interrupted = TRUE]
  /\ UNCHANGED seen
  /\ Crash("KeyboardInterrupt")
  /\ NoOps
  /\ UNCHANGED << script, result, mainVars, loopVars, kubeVars, paramVars, snapVars >>
  /\ UNCHANGED << steps, http_made, posts, slept, gap >>

sf_main ==
  /\ script = "submit_pipeline_storage_fixed" /\ pc = "sf_main"
  /\ Exit(0)
  /\ NoOps
  /\ UNCHANGED << script, result, mainVars, loopVars, histVars, kubeVars, paramVars, snapVars >>

\* ------------------------------------------------------ fix_granite_image.py
\* The oc commands of the script.  run_oc_command gives the output, or None
\* when the command exits non-zero; it never raises for a failing command.
delete_pod_cmd == Op("oc", "delete", "pod", "fix")
apply_pod_cmd == Op("oc", "apply", "pod", "fix")
patch_phase_cmd == Op("oc", "patch", "workflow", "fix")
get_workflow_cmd == Op("oc", "get", "workflow", "fix")

\* failing_pods has two entries.
failing_pods == << "instructlab-dpltw-system-container-impl-1650928254",
                   "instructlab-dpltw-system-container-impl-3973677185" >>

\* The function that is run: main (the script itself), or one of the two
\* functions main does not call, run from an import.
fg_enter ==
  /\ script = "fix_granite_image" /\ pc = "fg_entry"
  /\ pc' \in { "fg_main_delete", "fg_patch_delete", "fg_skip" }
  /\ i' = 0
  /\ Running /\ NoOps
  /\ UNCHANGED << script, result, mainVars, histVars, kubeVars, paramVars, snapVars >>
  /\ UNCHANGED << now, iteration, monitoring_duration, last_status,
                  last_progress, current_time_bound >>

\* run_oc_command returned None: history keeping.
CommandFailed(o, failed) == [ o EXCEPT !.command_failed = @ \/ failed ]

\* A loop that gives up at the first deletion that fails.
fg_after_delete_mut(at, k, failed) ==
  IF failed \/ k >= Len(failing_pods)
    THEN (IF at = "fg_main_delete" THEN "fg_main_create" ELSE "fg_patch_create")
    ELSE at

\* Where the `for pod in failing_pods` loop goes after its k-th deletion: the
\* value run_oc_command returned is dropped.
fg_after_delete(at, k, failed) ==
  IF k < Len(failing_pods) THEN at
  ELSE IF at = "fg_main_delete" THEN "fg_main_create" ELSE "fg_patch_create"

\* for pod in failing_pods: run_oc_command("oc delete pod ..."), in main and
\* in patch_workflow_image.
fg_delete_pod ==
  /\ script = "fix_granite_image"
  /\ pc \in { "fg_main_delete", "fg_patch_delete" }
  /\ ops' = { delete_pod_cmd }
  /\ i' = i + 1
  /\ \E failed \in BOOLEAN :
       /\ obs' = CommandFailed(obs, failed)
       /\ pc' = fg_after_delete(pc, i + 1, failed)
  /\ Running
  /\ UNCHANGED << script, result, mainVars, kubeVars, paramVars, snapVars >>
  /\ UNCHANGED << steps, http_made, posts, seen, slept, gap >>
  /\ UNCHANGED << now, iteration, monitoring_duration, last_status,
                  last_progress, current_time_bound >>

\* The commands create_replacement_pods sends: oc apply, and when that
\* succeeded the deletion of the workaround pod 35 seconds later.
create_replacement_pods_cmds(applied) ==
  IF applied THEN { apply_pod_cmd, delete_pod_cmd } ELSE { apply_pod_cmd }

\* create_replacement_pods(namespace): write the YAML file, oc apply it.
fg_create_replacement_pods ==
  /\ script = "fix_granite_image"
  /\ pc \in { "fg_main_create", "fg_patch_create" }
  /\ \E applied \in BOOLEAN :
       /\ ops' = create_replacement_pods_cmds(applied)
       /\ result' = IF applied THEN "True" ELSE "False"
       /\ obs' = CommandFailed(obs, ~applied)
  /\ pc' = IF pc = "fg_main_create" THEN "fg_main_progress" ELSE "returned"
  /\ Running
  /\ UNCHANGED << script, mainVars, loopVars, kubeVars, paramVars, snapVars >>
  /\ UNCHANGED << steps, http_made, posts, seen, slept, gap >>

\* open('/tmp/granite_workaround.yaml', 'w') fails: nothing catches it.
fg_create_write_fails ==
  /\ script = "fix_granite_image"
  /\ pc \in { "fg_main_create", "fg_patch_create" }
  /\ Crash("OSError")
  /\ NoOps
  /\ UNCHANGED << script, result, mainVars, loopVars, histVars, kubeVars, paramVars, snapVars >>

\* main, step 3: read .status.progress, then .status.phase; main ends.
fg_main_status ==
  /\ script = "fix_granite_image"
  /\ pc \in { "fg_main_progress", "fg_main_phase" }
  /\ ops' = { get_workflow_cmd }
  /\ \E failed \in BOOLEAN : obs' = CommandFailed(obs, failed)
  /\ IF pc = "fg_main_progress"
       THEN pc' = "fg_main_phase" /\ Running
       ELSE Exit(0)
  /\ UNCHANGED << script, result, mainVars, loopVars, kubeVars, paramVars, snapVars >>
  /\ UNCHANGED << steps, http_made, posts, seen, slept, gap >>

\* A skip_granite_tasks that patches whatever the fetch gave.
skip_granite_tasks_cmds_mut(fetched) == { get_workflow_cmd, patch_phase_cmd }

\* The commands skip_granite_tasks sends: the fetch, and the patch once the
\* fetched JSON parsed.
skip_granite_tasks_cmds(fetched) ==
  IF fetched = "json" THEN { get_workflow_cmd, patch_phase_cmd }
  ELSE { get_workflow_cmd }

\* skip_granite_tasks(workflow_name, namespace)
fg_skip_granite_tasks ==
  /\ script = "fix_granite_image" /\ pc = "fg_skip"
  /\ \E fetched \in { "failed", "empty", "not-json", "json" }, patched \in BOOLEAN :
       /\ ops' = skip_granite_tasks_cmds(fetched)
       /\ result' = IF fetched = "json" /\ patched THEN "True" ELSE "False"
       /\ seen' = Saw(fetched = "json", "", FALSE, FALSE)
       /\ obs' = CommandFailed(obs, fetched = "failed"
                                      \/ (fetched = "json" /\ ~patched))
  /\ pc' = "returned"
  /\ Running
  /\ UNCHANGED << script, mainVars, loopVars, kubeVars, paramVars, snapVars >>
  /\ UNCHANGED << steps, http_made, posts, slept, gap >>

\* ------------------------------------------------------------ specification
Init ==
  /\ script \in Scripts
  /\ pc = EntryPc(script)
  /\ InitCommon
  /\ kubeconfig = None /\ kube_token = None
  /\ args = None /\ custom_params = None /\ parameters = None
  /\ pipeline_version_reference = None
  /\ workflow_data = None /\ progress_info = None
  /\ pipelines_response = None

Next ==
  \/ mp_while \/ mp_poll \/ mp_poll_raises \/ mp_sleep \/ mp_retry_sleep
  \/ mp_interrupt \/ mp_interrupt_in_handler \/ mp_main
  \/ v1_get_bearer_token \/ v1_route_given \/ v1_get_dspa_route
  \/ v1_pipeline_info \/ v1_submit_pipeline_run
  \/ spp_while \/ spp_poll \/ spp_poll_raises \/ spp_sleep \/ spp_retry_sleep
  \/ spp_interrupt \/ spp_interrupt_in_handler \/ spp_main
  \/ nfs_poll \/ nfs_poll_raises \/ nfs_sleep \/ nfs_retry
  \/ nfs_interrupt \/ nfs_interrupt_in_handler \/ nfs_main
  \/ v2_get_token \/ v2_port_forward \/ v2_route \/ v2_pipeline_info
  \/ v2_post \/ v2_main
  \/ spc_find_workflow \/ spc_while \/ spc_poll \/ spc_poll_raises \/ spc_sleep
  \/ spc_retry_sleep \/ spc_interrupt \/ spc_interrupt_in_handler \/ spc_main
  \/ sf_for \/ sf_poll \/ sf_poll_raises \/ sf_sleep \/ sf_interrupt \/ sf_main
  \/ fg_enter \/ fg_delete_pod \/ fg_create_replacement_pods
  \/ fg_create_write_fails \/ fg_main_status \/ fg_skip_granite_tasks

Spec == Init /\ [][Next]_vars

\* get_openshift_token alone, on every kubeconfig within the bound.
InitKube ==
  /\ script = "submit_pipeline"
  /\ pc = "kube_read"
  /\ InitCommon
  /\ kubeconfig \in Kubeconfigs
  /\ kube_token = "unset"
  /\ args = None /\ custom_params = None /\ parameters = None
  /\ pipeline_version_reference = None
  /\ workflow_data = None /\ progress_info = None
  /\ pipelines_response = None

kube_read ==
  /\ pc = "kube_read"
  /\ kube_token' = get_openshift_token(kubeconfig)
  /\ pc' = "kube_done"
  /\ UNCHANGED << script, exit_status, uncaught, result, ops, mainVars,
                  loopVars, histVars, kubeconfig, paramVars, snapVars >>

NextKube == kube_read

SpecKube == InitKube /\ [][NextKube]_vars

\* The interpreter keeps executing the script: a step that can be taken is
\* taken.
\* main and submit_pipeline of the scripts with custom_params, as far as the
\* runtime parameters go.
InitParams ==
  /\ script \in V2Scripts
  /\ pc = "params_main"
  /\ InitCommon
  /\ kubeconfig = None /\ kube_token = None
  /\ args \in (IF script \in ParamScripts THEN Args
               ELSE { [ n \in ArgNames |-> None ] })
  /\ custom_params = << >> /\ parameters = << >>
  /\ pipeline_version_reference = NoReference
  /\ workflow_data = None /\ progress_info = None
  /\ pipelines_response = None

\* main: build custom_params from the flags
params_main ==
  /\ pc = "params_main"
  /\ custom_params' = build_custom_params(args)
  /\ pc' = "params_locate"
  /\ UNCHANGED << script, exit_status, uncaught, result, ops, mainVars,
                  loopVars, histVars, kubeVars, snapVars, args,
                  parameters, pipeline_version_reference >>

\* submit_pipeline: the connection (port-forward, or the route of the
\* namespace) and get_pipeline_info; without a pipeline and a version no
\* payload is built.
params_locate ==
  /\ pc = "params_locate"
  /\ \E use_port_forward \in BOOLEAN, route \in NamespaceRoutes,
        listing \in V2Listings :
       LET dspa_url == IF use_port_forward THEN "https://localhost:8888"
                       ELSE get_dspa_info(route)
           info == v2_get_pipeline_info(listing)
       IN /\ dspa_host' = dspa_url
          /\ IF dspa_url = None
               THEN /\ pc' = "params_failed"
                    /\ UNCHANGED << pipelines_response, pipeline_id,
                                    version_id >>
               ELSE /\ pipelines_response' = listing
                    /\ pipeline_id' = info.pipeline_id
                    /\ version_id' = info.version_id
                    /\ pc' = IF v2_accepts_pipeline(info.pipeline_id,
                                                    info.version_id)
                               THEN "params_submit" ELSE "params_failed"
  /\ UNCHANGED << script, exit_status, uncaught, result, ops, loopVars,
                  histVars, kubeVars, paramVars, workflow_data,
                  progress_info >>
  /\ UNCHANGED << token, run_id, submit_ret >>

\* submit_pipeline: the table, updated, goes into the payload
params_submit ==
  /\ pc = "params_submit"
  /\ parameters' = runtime_parameters(script, passed_custom_params(custom_params))
  /\ pipeline_version_reference' = version_reference(pipeline_id, version_id)
  /\ pc' = "params_done"
  /\ UNCHANGED << script, exit_status, uncaught, result, ops, mainVars,
                  loopVars, histVars, kubeVars, snapVars, args,
                  custom_params >>

NextParams == params_main \/ params_locate \/ params_submit

SpecParams == InitParams /\ [][NextParams]_vars

\* ---- analyze_workflow_progress on its own
\* Large snapshots: some Succeeded nodes followed by nodes of one other phase.
BigWorkflows ==
  { [present |-> TRUE, phase |-> "Running",
     nodes |-> [ k \in 1..total |-> IF k <= done THEN "Succeeded" ELSE other ]] :
      total \in (MaxNodes + 1)..MaxTotal, done \in 0..MaxTotal,
      other \in { "Running", "Failed" } }

AnalyzeInputs == get_workflow_status_results \cup { EmptyDict } \cup BigWorkflows

InitProgress ==
  /\ script = "monitor_production_pipeline"
  /\ pc = "analyze"
  /\ InitCommon
  /\ kubeconfig = None /\ kube_token = None
  /\ args = None /\ custom_params = None /\ parameters = None
  /\ pipeline_version_reference = None
  /\ workflow_data \in AnalyzeInputs
  /\ progress_info = None
  /\ pipelines_response = None

analyze ==
  /\ pc = "analyze"
  /\ progress_info' = analyze_workflow_progress(workflow_data)
  /\ pc' = "analyzed"
  /\ UNCHANGED << script, exit_status, uncaught, result, ops, mainVars,
                  loopVars, histVars, kubeVars, paramVars, workflow_data,
                  pipelines_response >>

NextProgress == analyze

SpecProgress == InitProgress /\ [][NextProgress]_vars

\* ---- get_pipeline_info on its own
\* Answers of the v2beta1 pipelines request that list several pipelines;
\* "instructlab" is a display name that is not exactly 'InstructLab'.
V2ListedPipelines ==
  [ display_name : {"InstructLab", "instructlab"}, pipeline_id : {"p1", "p2"},
    versions : V2Versions ]

V2LongListings ==
  { [status |-> "raises", pipelines |-> << >>],
    [status |-> "500", pipelines |-> << >>] }
    \cup { [status |-> "200", pipelines |-> ps] :
             ps \in UNION { [1..n -> V2ListedPipelines] : n \in 0..MaxPipelines } }

\* Answers of the v1beta1 pipelines request that list several pipelines; a
\* listed pipeline may come without a display_name.
V1ListedPipelines ==
  [ id : {"p1", "p2"}, display_name : DisplayNames \cup {Missing} ]

V1LongListings ==
  { [ok |-> FALSE] }
    \cup { [ok |-> TRUE, pipelines |-> ps] :
             ps \in UNION { [1..n -> V1ListedPipelines] : n \in 0..MaxPipelines } }

InitPipelines ==
  /\ script \in V1Scripts \cup V2Scripts
  /\ pc = "get_pipeline_info"
  /\ InitCommon
  /\ kubeconfig = None /\ kube_token = None
  /\ args = None /\ custom_params = None /\ parameters = None
  /\ pipeline_version_reference = None
  /\ workflow_data = None /\ progress_info = None
  /\ pipelines_response \in
       (IF script \in V2Scripts THEN V2LongListings ELSE V1LongListings)

\* pipeline_id, version_id = get_pipeline_info(dspa_url, headers)
v2_get_info ==
  /\ script \in V2Scripts /\ pc = "get_pipeline_info"
  /\ LET info == v2_get_pipeline_info(pipelines_response)
     IN /\ pipeline_id' = info.pipeline_id
        /\ version_id' = info.version_id
  /\ pc' = "got_pipeline_info"
  /\ UNCHANGED << script, exit_status, uncaught, result, ops, loopVars,
                  histVars, kubeVars, paramVars, snapVars >>
  /\ UNCHANGED << token, dspa_host, run_id, submit_ret >>

\* pipeline_id = get_pipeline_info(dspa_host, token)
v1_get_info ==
  /\ script \in V1Scripts /\ pc = "get_pipeline_info"
  /\ pipeline_id' = v1_get_pipeline_info(pipelines_response)
  /\ pc' = "got_pipeline_info"
  /\ UNCHANGED << script, exit_status, uncaught, result, ops, loopVars,
                  histVars, kubeVars, paramVars, snapVars >>
  /\ UNCHANGED << token, dspa_host, version_id, run_id, submit_ret >>

NextPipelines == v2_get_info \/ v1_get_info

SpecPipelines == InitPipelines /\ [][NextPipelines]_vars

FairSpec == Spec /\ WF_vars(Next)

\* ==================================================================== claims
PollPcs == { "mp_poll", "spp_poll", "nfs_poll", "spc_poll", "sf_poll" }
MonitorPcs ==
  { "mp_loop", "mp_poll", "mp_sleep", "mp_retry_sleep",
    "spp_loop", "spp_poll", "spp_sleep", "spp_retry_sleep",
    "nfs_poll", "nfs_sleep", "nfs_retry_sleep",
    "spc_loop", "spc_poll", "spc_sleep", "spc_retry_sleep" }

\* Monitoring was started and is over (it returned, or an exception left it).
MonitoringOver ==
  \/ script = "monitor_production_pipeline" /\ pc \in {"mp_main", "exited"}
  \/ /\ script = "submit_pipeline_production"
     /\ pc \in {"spp_main", "exited"}
     /\ (result # "unset" \/ uncaught = "KeyboardInterrupt")

\* C1: in monitor_production_pipeline.py, and in submit_pipeline_production.py
\* once monitoring has started, the exit status is 0 exactly when a poll saw
\* phase Succeeded, 1 exactly when a poll saw a failure (a failed node or
\* phase Failed/Error), and 2 exactly when the 24 hours ran out.
C1_ExitStatusTellsOutcome ==
  (MonitoringOver /\ pc = "exited") =>
    /\ (exit_status = 0) <=> obs.succeeded
    /\ (exit_status = 1) <=> obs.failure
    /\ (exit_status = 2) <=> obs.timeout

\* C2: every polling loop is bounded: whatever the cluster answers, each
\* monitoring function (nfs_storage, production, complete) eventually returns.
C2_MonitorsReturn == (pc \in MonitorPcs) ~> (pc \notin MonitorPcs)

\* C3: an Exception raised at any point of a poll, the first poll included,
\* never ends the monitoring function: once polling has begun, no exception
\* other than a keyboard interrupt reaches the interpreter.
C3_PollErrorsAreRetried ==
  (gap >= 0) => uncaught \in { None, "KeyboardInterrupt" }

SubmissionSteps ==
  << "authenticate", "locate_route", "locate_pipeline", "build_payload", "post" >>

\* C4: the submission steps happen in the order authenticate, locate route,
\* locate pipeline, build payload, POST; a POST to the runs endpoint is only
\* sent with a token, a DSPA host and a pipeline id (and a version id in the
\* v2beta1 scripts) in hand; and at most one such POST is sent per run.
C4_SubmissionOrder ==
  /\ posts <= 1
  /\ Len(steps) <= Len(SubmissionSteps)
  /\ steps = SubSeq(SubmissionSteps, 1, Len(steps))
  /\ (posts = 1) <=> (Len(steps) = Len(SubmissionSteps))
  /\ (posts = 1) =>
       /\ Has(token) /\ Has(dspa_host) /\ Has(pipeline_id)
       /\ script \in V2Scripts => Has(version_id)

C4_Witness ==
  posts = 1 /\ script = "submit_pipeline_fixed" /\ pc = "exited"

\* C5: in submit_pipeline_complete.py every failing return of submit_pipeline
\* is a (success, run_id) pair with run_id None, so main unpacks it and takes
\* its `if not success: sys.exit(1)` branch.
C5_FailureIsAPair ==
  script = "submit_pipeline_complete" =>
    /\ uncaught # "TypeError"
    /\ pc = "v2_main" =>
         /\ submit_ret.arity = 2
         /\ ~submit_ret.success => submit_ret.run_id = None

IsRead(op) == op.verb \in { "get", "GET" }
IsRunSubmission(op) == op.verb = "POST" /\ op.what = "runs"

\* C6: the only commands that change cluster state are the deletion of pods
\* and the patch of node phases; every other command or request is a read
\* (the submission of the run itself aside), and monitoring only reads.
C6_OnlyDeleteAndPatchMutate ==
  \A op \in ops :
    /\ IsRead(op) \/ IsRunSubmission(op) \/ op \in { delete_pod_cmd, patch_phase_cmd }
    /\ op.during = "monitor" => IsRead(op)

\* C6 as amended: creating the workaround pod with `oc apply` is a third
\* command that changes cluster state.
C6_DeleteApplyAndPatchMutate ==
  \A op \in ops :
    /\ \/ IsRead(op) \/ IsRunSubmission(op)
       \/ op \in { delete_pod_cmd, patch_phase_cmd, apply_pod_cmd }
    /\ op.during = "monitor" => IsRead(op)

C6_Witness ==
  /\ script = "fix_granite_image"
  /\ ops = { apply_pod_cmd, delete_pod_cmd }
  /\ pc = "fg_main_progress"

\* A step that is a sleep of a polling loop.
IsSleep == gap >= 0 /\ gap' = gap + 1

\* C7: within each polling loop every sleep has one and the same length,
\* after a poll that raised as after a normal poll, and exactly one sleep
\* lies between two consecutive polls.
C7_OneFixedInterval ==
  [][ /\ (IsSleep /\ slept # 0) => slept' = slept
      /\ pc' \in PollPcs => gap' \in { -1, 1 } ]_vars

\* C7 as amended: exactly one sleep lies between two consecutive polls; all
\* sleeps of a loop have one length, except in submit_pipeline_nfs_storage,
\* which sleeps 30 s after a normal poll and 60 s after a poll that raised.
C7_FixedIntervalButNfs ==
  [][ /\ (IsSleep /\ slept # 0 /\ script # "submit_pipeline_nfs_storage")
           => slept' = slept
      /\ (IsSleep /\ script = "submit_pipeline_nfs_storage")
           => slept' = (IF pc = "nfs_retry_sleep" THEN 60 ELSE 30)
      /\ pc' \in PollPcs => gap' \in { -1, 1 } ]_vars

C7_Witness ==
  /\ script = "submit_pipeline_nfs_storage"
  /\ pc = "nfs_poll" /\ gap = 1 /\ slept = nfs_retry_sleep

\* C8: in monitor_production_pipeline.monitor_pipeline and
\* submit_pipeline_production.monitor_pipeline_run a keyboard interrupt at any
\* point of the loop ends monitoring with result None and exit status 2.
C8_InterruptEndsMonitoring ==
  ( /\ script \in { "monitor_production_pipeline", "submit_pipeline_production" }
    /\ obs.interrupted ) =>
      /\ result = "None"
      /\ pc \in { "mp_main", "spp_main", "exited" }
      /\ pc = "exited" => exit_status = 2

KubeCtxIdx(kc) ==
  { k \in 1..Len(kc.contexts) : kc.contexts[k].name = kc.current_context }

\* The user entries that carry a token for the user of context entry k.
KubeTokIdx(kc, k) ==
  { j \in 1..Len(kc.users) :
      /\ kc.users[j].name = kc.contexts[k].user
      /\ kc.users[j].token \in KubeTokens }

KubeWellFormed(kc) ==
  /\ kc.file = "ok"
  /\ \A k \in 1..Len(kc.contexts) :
       kc.contexts[k].name # Missing /\ kc.contexts[k].user # Missing
  /\ \A j \in 1..Len(kc.users) :
       kc.users[j].name # Missing /\ kc.users[j].token # Malformed

\* C9: get_openshift_token returns the token of the user that the context
\* named by current-context refers to; None when current-context is absent,
\* when no context has that name, or when no user entry of that name carries
\* a token; and whatever the kubeconfig holds it returns and never raises.
C9_TokenOfCurrentContext ==
  pc = "kube_done" =>
    /\ kube_token \in KubeTokens \cup { None }
    /\ kubeconfig.file # "ok" => kube_token = None
    /\ kubeconfig.current_context = None => kube_token = None
    /\ KubeCtxIdx(kubeconfig) = {} => kube_token = None
    /\ ( /\ KubeCtxIdx(kubeconfig) # {}
         /\ KubeTokIdx(kubeconfig, SetMin(KubeCtxIdx(kubeconfig))) = {} )
         => kube_token = None
    /\ kube_token # None =>
         \E j \in KubeTokIdx(kubeconfig, SetMin(KubeCtxIdx(kubeconfig))) :
           kubeconfig.users[j].token = kube_token
    /\ ( /\ KubeWellFormed(kubeconfig)
         /\ kubeconfig.current_context # None
         /\ KubeCtxIdx(kubeconfig) # {}
         /\ KubeTokIdx(kubeconfig, SetMin(KubeCtxIdx(kubeconfig))) # {} )
         => kube_token =
              kubeconfig.users[
                SetMin(KubeTokIdx(kubeconfig, SetMin(KubeCtxIdx(kubeconfig))))].token

C9_Witness ==
  /\ pc = "kube_done"
  /\ kube_token = "tokB"
  /\ Len(kubeconfig.contexts) = 2 /\ Len(kubeconfig.users) = 2
  /\ kubeconfig.contexts[1].name = "c2"
  /\ kubeconfig.users[1].token = NoToken

\* C10: in submit_pipeline_nfs_storage.py and submit_pipeline_production.py a
\* failed token or route lookup ends the process with status 1 before any
\* HTTP request; a missing pipeline id or a failed submission ends it with
\* status 1 and monitoring never starts.
C10_EarlyFailuresExitOne ==
  script \in V1Scripts =>
    /\ (pc = "exited" /\ (~Has(token) \/ ~Has(dspa_host))) =>
         exit_status = 1 /\ ~http_made /\ posts = 0
    /\ (pc = "exited" /\ (~Has(pipeline_id) \/ ~Has(run_id))) =>
         exit_status = 1 /\ gap = -1 /\ result = "unset"
    /\ (pc \in MonitorPcs \/ gap >= 0 \/ result # "unset") =>
         Has(token) /\ Has(dspa_host) /\ Has(pipeline_id) /\ Has(run_id)

C10_Witness ==
  /\ script = "submit_pipeline_production" /\ pc = "exited"
  /\ posts = 1 /\ ~Has(run_id) /\ exit_status = 1

\* The three parameters the command line can change.
CommandLineParams == { param_of_arg(n) : n \in ArgNames }

\* C11: the submitted runtime parameters are the script's default table
\* overridden by custom_params: every key of custom_params carries the custom
\* value, every other key keeps its default, no default key is removed, and
\* from the command line only sdg_repo_url, sdg_base_model and
\* output_model_name can change (an absent or empty flag changes nothing).
C11_DefaultsOverriddenByCustom ==
  pc = "params_done" =>
    /\ DOMAIN params_table(script) \subseteq DOMAIN parameters
    /\ DOMAIN parameters \subseteq DOMAIN params_table(script) \cup DOMAIN custom_params
    /\ \A k \in DOMAIN custom_params : parameters[k] = custom_params[k]
    /\ \A k \in DOMAIN params_table(script) \ DOMAIN custom_params :
         parameters[k] = params_table(script)[k]
    /\ \A k \in DOMAIN parameters :
         parameters[k] # params_table(script)[k] => k \in CommandLineParams
    /\ \A n \in ArgNames :
         parameters[param_of_arg(n)] =
           IF args[n] \in { None, "" } THEN params_table(script)[param_of_arg(n)]
           ELSE args[n]

C11_Witness ==
  /\ pc = "params_done" /\ script = "submit_pipeline_complete"
  /\ args["repo_url"] = "custom" /\ args["base_model"] = ""
  /\ args["output_model_name"] = None
  /\ parameters["sdg_repo_url"] = "custom"
  /\ parameters["train_seed"] = "42"

\* C12: submit_pipeline_production.monitor_pipeline_run stops at once when the
\* pipeline fails: a poll whose workflow manifest holds a node in phase
\* Failed returns False at that same poll, with no further sleep, whatever
\* status and progress earlier polls saw.
C12_FailedNodeStopsProduction ==
  (script = "submit_pipeline_production" /\ seen.failed) =>
    /\ pc \in { "spp_main", "exited" }
    /\ result = "False"

\* C13: monitor_production_pipeline.monitor_pipeline stops at once on
\* failures and on completion: the poll that observes a node in phase Failed
\* or Error, or a workflow phase Succeeded, Failed or Error, returns at that
\* poll without a further sleep; it returns True if and only if the phase is
\* Succeeded and no node is Failed or Error, and False otherwise.
C13_MonitorStopsAtOnce ==
  ( /\ script = "monitor_production_pipeline"
    /\ seen.data
    /\ seen.failed \/ seen.errored \/ seen.phase \in TerminalPhases ) =>
      /\ pc \in { "mp_main", "exited" }
      /\ result = IF seen.phase = "Succeeded" /\ ~seen.failed /\ ~seen.errored
                    THEN "True" ELSE "False"

C13_Witness ==
  /\ script = "monitor_production_pipeline" /\ pc = "mp_main"
  /\ seen.phase = "Succeeded" /\ seen.errored /\ result = "False"
  /\ iteration = 2

\* C14: monitor_pipeline_simple monitors for a bounded time: it performs at
\* most 20 polls, stops at the first poll whose latest-workflow line reports
\* Succeeded, Failed or Error, and an empty line, a line of fewer than two
\* fields or an error raised on a poll neither ends the loop early nor
\* extends it beyond 20 polls.
C14_SimpleMonitorBounded ==
  script = "submit_pipeline_storage_fixed" =>
    /\ i <= simple_polls
    /\ pc = "sf_poll" =>
         /\ i < simple_polls
         /\ gap = (IF i = 0 THEN -1 ELSE 1)
    /\ pc \in { "sf_sleep", "sf_retry_sleep" } => i < simple_polls /\ gap = 0
    /\ (seen.data /\ seen.phase \in TerminalPhases) => pc \in { "sf_main", "exited" }
    /\ (seen.polled /\ ~(seen.data /\ seen.phase \in TerminalPhases)
          /\ ~obs.interrupted) => pc \in { "sf_sleep", "sf_retry_sleep" }
    /\ (pc = "sf_main" /\ ~(seen.data /\ seen.phase \in TerminalPhases)) =>
         i = simple_polls

C14_Witness ==
  /\ script = "submit_pipeline_storage_fixed" /\ pc = "sf_main"
  /\ i = simple_polls /\ obs.unavailable /\ ~obs.succeeded /\ ~obs.failure

\* C15: monitor_production_pipeline.monitor_pipeline returns False only if
\* the poll on which it returns observed a node in phase Failed or Error or a
\* workflow phase Failed or Error; a poll at which the workflow status cannot
\* be retrieved is followed by a sleep and another poll, not by a failure.
C15_FalseOnlyOnObservedFailure ==
  script = "monitor_production_pipeline" =>
    /\ result = "False" =>
         /\ seen.data
         /\ seen.failed \/ seen.errored \/ seen.phase \in { "Failed", "Error" }
    /\ (seen.polled /\ ~seen.data /\ ~obs.interrupted) =>
         pc = "mp_sleep" /\ result = "unset"

\* C16: in monitor_pipeline_run of submit_pipeline_production.py and
\* submit_pipeline_nfs_storage.py a poll whose answer reports run status
\* Succeeded, Failed or Error ends the loop at that poll (production: with
\* True iff the status is Succeeded, else False), whether or not the answer
\* carries a parsable workflow manifest.
C16_TerminalStatusEndsLoop ==
  (script \in V1Scripts /\ seen.polled /\ seen.phase \in TerminalPhases) =>
    /\ pc \in { "spp_main", "nfs_main", "exited" }
    /\ script = "submit_pipeline_production" =>
         result = IF seen.phase = "Succeeded" THEN "True" ELSE "False"

\* The number of polls 4 hours of 30 second intervals allow.
MaxCompletePolls == max_monitoring_time \div complete_check_interval

\* C17: submit_pipeline_complete.monitor_pipeline returns True only if a poll
\* observed phase Succeeded; it returns at the first poll that observes
\* Succeeded, Failed or Error (last_status never holds such a phase); and it
\* performs at most 480 polls, because monitoring_duration grows by exactly
\* check_interval on every iteration, after a normal poll and after a poll
\* that raised alike.
C17_CompleteMonitorReturns ==
  [][ script = "submit_pipeline_complete" =>
        /\ result' = "True" => seen'.phase = "Succeeded"
        /\ (seen'.polled /\ seen'.phase \in TerminalPhases) =>
             pc' \in { "spc_main", "exited" }
        /\ last_status' \notin TerminalPhases
        /\ IsSleep =>
             monitoring_duration' = monitoring_duration + complete_check_interval
        /\ pc' = "spc_poll" =>
             /\ gap' \in { -1, 1 }
             /\ monitoring_duration' % complete_check_interval = 0
             /\ (monitoring_duration' \div complete_check_interval) + 1
                  <= MaxCompletePolls ]_vars

C17_Witness ==
  /\ script = "submit_pipeline_complete" /\ pc = "spc_main"
  /\ obs.timeout /\ result = "False"
  /\ monitoring_duration = MaxCompletePolls * complete_check_interval
  /\ slept = complete_check_interval

\* C18: analyze_workflow_progress puts every node into at most one of its
\* four lists: completed holds the Succeeded nodes, running the Running
\* ones, failed the Failed and Error ones, pending the Pending ones; the four
\* counts add up to at most total_nodes, the number of nodes, and to exactly
\* total_nodes when and only when every node has one of those five phases;
\* each name list is as long as its count; and for a workflow_data that is
\* None or empty the function returns None.
NamedPhases == { "Succeeded", "Running", "Failed", "Error", "Pending" }

ClassifiedNodes(info) ==
  info.completed_nodes + info.running_nodes + info.failed_nodes
    + info.pending_nodes

C18_NodesClassifiedOnce ==
  pc = "analyzed" =>
    IF workflow_data \in { NoWorkflow, EmptyDict }
      THEN progress_info = NoProgress
      ELSE LET nodes == workflow_data.nodes
           IN /\ progress_info.present
              /\ progress_info.total_nodes = Len(nodes)
              /\ progress_info.completed_nodes = Count(nodes, {"Succeeded"})
              /\ progress_info.running_nodes = Count(nodes, {"Running"})
              /\ progress_info.failed_nodes = Count(nodes, {"Failed", "Error"})
              /\ progress_info.pending_nodes = Count(nodes, {"Pending"})
              /\ ClassifiedNodes(progress_info) <= progress_info.total_nodes
              /\ ClassifiedNodes(progress_info) = progress_info.total_nodes
                   <=> (\A k \in 1..Len(nodes) : nodes[k] \in NamedPhases)
              /\ Len(progress_info.completed_node_names)
                   = progress_info.completed_nodes
              /\ Len(progress_info.running_node_names)
                   = progress_info.running_nodes
              /\ Len(progress_info.failed_node_names)
                   = progress_info.failed_nodes

\* A snapshot with a node outside the five phases has been analysed.
C18_Witness ==
  /\ pc = "analyzed"
  /\ workflow_data.present /\ workflow_data # EmptyDict
  /\ workflow_data.nodes = << "Succeeded", "Skipped" >>
  /\ progress_info.completed_nodes = 1
  /\ ClassifiedNodes(progress_info) = 1

\* C19: the progress percentage of analyze_workflow_progress is the floor of
\* 100 * completed_nodes / total_nodes when there are nodes and 0 when there
\* are none; it lies in 0..100; it is 100 exactly when there is a node and
\* every node is Succeeded, whereas the percentage of
\* submit_pipeline_production.monitor_pipeline_run, which counts the Failed
\* and Error nodes as completed as well, is never smaller and is 100 exactly
\* when there is a node and every node is Succeeded, Failed or Error.
C19_ProgressIsFloor ==
  (pc = "analyzed" /\ progress_info.present) =>
    LET nodes == workflow_data.nodes
        total == Len(nodes)
        succeeded == Count(nodes, {"Succeeded"})
        ended == Count(nodes, {"Succeeded", "Failed", "Error"})
    IN /\ progress_info.progress_pct
            = (IF total > 0 THEN (100 * succeeded) \div total ELSE 0)
       /\ progress_info.progress_pct \in 0..100
       /\ progress_info.progress_pct = 100 <=> (total > 0 /\ succeeded = total)
       /\ run_progress_pct(nodes) >= progress_info.progress_pct
       /\ run_progress_pct(nodes) = 100 <=> (total > 0 /\ ended = total)

\* C20: monitor_production_pipeline.monitor_pipeline prints a status update
\* on a poll with workflow data exactly when the percentage differs from
\* last_progress, or the iteration number is 1 modulo 6, or a node is Failed
\* or Error, or the phase is terminal; and last_progress follows the polls:
\* a poll with workflow data after which the loop goes on leaves the
\* percentage it obtained in last_progress, and nothing else changes
\* last_progress, so that every iteration after the first starts with the
\* percentage of the most recent poll that returned workflow data.
C20_PrintsOnChangeOrSixth ==
  [][ script = "monitor_production_pipeline" =>
        /\ (pc = "mp_poll" /\ seen'.polled /\ seen'.data) =>
             (seen'.printed <=>
                \/ seen'.pct # last_progress
                \/ iteration % 6 = 1
                \/ seen'.failed \/ seen'.errored
                \/ seen'.phase \in TerminalPhases)
        /\ IF pc = "mp_poll" /\ seen'.polled /\ seen'.data /\ pc' = "mp_sleep"
             THEN last_progress' = seen'.pct
             ELSE last_progress' = last_progress ]_vars

\* A poll with workflow data in a later iteration has printed nothing.
C20_Witness ==
  /\ script = "monitor_production_pipeline" /\ pc = "mp_sleep"
  /\ iteration > 1
  /\ seen.polled /\ seen.data /\ ~seen.printed
  /\ seen.pct = last_progress /\ seen.pct > 0

\* C21: get_pipeline_info of the v2beta1 scripts returns the id of the first
\* listed pipeline named exactly 'InstructLab' whose versions request answers
\* 200 with a non-empty list, with the id of the first version of that list;
\* matching pipelines before it whose versions are not usable are passed
\* over; when a request raises or does not answer 200 on the way, or no
\* listed pipeline is usable, it returns (None, None); and removing the
\* pipelines with other display names from the answer changes nothing.
UsableV2(p) ==
  /\ p.display_name = "InstructLab"
  /\ p.versions.status = "200" /\ p.versions.ids # << >>

RaisingV2(p) == p.display_name = "InstructLab" /\ p.versions.status = "raises"

NamedInstructLab(r) ==
  [ r EXCEPT !.pipelines = SelectSeq(@, LAMBDA p : p.display_name = "InstructLab") ]

C21_FirstUsableInstructLab ==
  (script \in V2Scripts /\ pc = "got_pipeline_info") =>
    LET ps == pipelines_response.pipelines
        usable == { k \in 1..Len(ps) : UsableV2(ps[k]) }
        raised(k) == \E j \in 1..(k - 1) : RaisingV2(ps[j])
        returned == [pipeline_id |-> pipeline_id, version_id |-> version_id]
    IN /\ IF pipelines_response.status = "200" /\ usable # {}
               /\ ~raised(SetMin(usable))
            THEN /\ pipeline_id = ps[SetMin(usable)].pipeline_id
                 /\ version_id = ps[SetMin(usable)].versions.ids[1]
            ELSE returned = NoPipeline
       /\ returned = v2_get_pipeline_info(NamedInstructLab(pipelines_response))

\* The second listed pipeline was returned: the first one is named
\* InstructLab and its versions request answered an empty list.
C21_Witness ==
  /\ script \in V2Scripts /\ pc = "got_pipeline_info"
  /\ pipelines_response.status = "200"
  /\ Len(pipelines_response.pipelines) = 2
  /\ pipelines_response.pipelines[1].display_name = "InstructLab"
  /\ pipelines_response.pipelines[1].versions.status = "200"
  /\ pipelines_response.pipelines[1].versions.ids = << >>
  /\ pipelines_response.pipelines[1].pipeline_id = "p1"
  /\ pipeline_id = "p2" /\ version_id = "v1"

\* C22: get_pipeline_info of the v1beta1 scripts returns the id of the first
\* listed pipeline whose display_name contains 'instructlab' in any case, and
\* the id of the first listed pipeline when none does; it returns None
\* exactly when the request or the parsing raised or the list is missing or
\* empty; and what it returns other than None is the id of a listed pipeline.
NameHasInstructlab(p) ==
  p.display_name \in { "InstructLab", "My-INSTRUCTLAB-Pipeline" }

C22_FirstMatchOrFirst ==
  (script \in V1Scripts /\ pc = "got_pipeline_info") =>
    IF ~pipelines_response.ok \/ pipelines_response.pipelines = << >>
      THEN pipeline_id = None
      ELSE LET ps == pipelines_response.pipelines
               named == { k \in 1..Len(ps) : NameHasInstructlab(ps[k]) }
           IN /\ pipeline_id # None
              /\ pipeline_id = IF named # {} THEN ps[SetMin(named)].id
                               ELSE ps[1].id
              /\ \E k \in 1..Len(ps) : pipeline_id = ps[k].id

\* C23: in submit_pipeline_complete.py the exit status depends on the
\* submission only: it is 1 exactly when submit_pipeline reported a failure,
\* and 0 after a successful submission, whatever the monitoring (a pipeline
\* that Succeeded or Failed, no workflow found, the 4 hours used up, a
\* keyboard interrupt) came to.
SubmissionSucceeded == submit_ret.arity = 2 /\ submit_ret.success

C23_ExitStatusIsSubmission ==
  (script = "submit_pipeline_complete" /\ pc = "exited") =>
    /\ exit_status = 1 <=> ~SubmissionSucceeded
    /\ SubmissionSucceeded => exit_status = 0

\* C24: fix_granite_image.main takes its steps in one order whatever the oc
\* commands answer: the deletion of the first and of the second failing pod,
\* once each, then create_replacement_pods, then the read of the progress
\* and the read of the phase, then the end with status 0; no step of main
\* sends the oc patch or enters skip_granite_tasks or patch_workflow_image;
\* and the only exception that ends main is the failed write of the YAML
\* file, before any command of that step is sent.
FgMainPcs ==
  { "fg_main_delete", "fg_main_create", "fg_main_progress", "fg_main_phase" }

C24_MainRunsEveryStep ==
  [][ script = "fix_granite_image" =>
        /\ (pc = "fg_entry" /\ pc' = "fg_main_delete") => i' = 0
        /\ pc \in FgMainPcs =>
             /\ patch_phase_cmd \notin ops'
             /\ pc' \in FgMainPcs \cup { "exited" }
             /\ uncaught' # None =>
                  pc = "fg_main_create" /\ uncaught' = "OSError" /\ ops' = {}
        /\ pc = "fg_main_delete" =>
             /\ ops' = { delete_pod_cmd }
             /\ i' = i + 1
             /\ pc' = IF i' < Len(failing_pods) THEN "fg_main_delete"
                      ELSE "fg_main_create"
        /\ (pc = "fg_main_create" /\ uncaught' = None) =>
             /\ apply_pod_cmd \in ops'
             /\ pc' = "fg_main_progress"
        /\ pc = "fg_main_progress" =>
             ops' = { get_workflow_cmd } /\ pc' = "fg_main_phase"
        /\ pc = "fg_main_phase" =>
             ops' = { get_workflow_cmd } /\ pc' = "exited" /\ exit_status' = 0
    ]_vars

\* The first deletion failed and main is about to delete the second pod.
C24_Witness ==
  /\ script = "fix_granite_image" /\ pc = "fg_main_delete"
  /\ i = 1 /\ obs.command_failed

\* C25: skip_granite_tasks always fetches the workflow; it sends the patch
\* that sets the two node phases to Succeeded exactly when the fetch gave
\* output that parsed as JSON; it returns True exactly when that patch was
\* sent and succeeded; and when the fetch failed, gave nothing or gave
\* invalid JSON it returns False and no patch is sent.
C25_PatchOnlyAfterFetch ==
  [][ (script = "fix_granite_image" /\ pc = "fg_skip") =>
        /\ pc' = "returned" /\ uncaught' = None
        /\ get_workflow_cmd \in ops'
        /\ ops' \subseteq { get_workflow_cmd, patch_phase_cmd }
        /\ patch_phase_cmd \in ops' <=> seen'.data
        /\ result' \in { "True", "False" }
        /\ result' = "True" <=>
             (patch_phase_cmd \in ops' /\ ~obs'.command_failed)
        /\ ~seen'.data => (result' = "False" /\ patch_phase_cmd \notin ops')
    ]_vars

\* The fetch command succeeded but gave no workflow JSON: nothing patched.
C25_Witness ==
  /\ script = "fix_granite_image" /\ pc = "returned"
  /\ seen.polled /\ ~seen.data /\ ~obs.command_failed
  /\ ops = { get_workflow_cmd } /\ result = "False"

\* C26: the parameter payload is fixed: a v2beta1 script run without
\* override flags (submit_pipeline_storage_fixed.py has none) submits its
\* own parameter table as runtime_config.parameters, whatever the
\* connection, the namespace's route and the answers of the cluster were, so
\* that two such invocations of a script submit the same parameters; and the
\* pipeline_version_reference of the payload carries the pipeline id and the
\* version id that get_pipeline_info returned in this invocation.
NoOverrideFlags == \A n \in ArgNames : args[n] = None

C26_PayloadIsFixed ==
  (pc = "params_done" /\ NoOverrideFlags) =>
    /\ parameters = params_table(script)
    /\ pipeline_version_reference.pipeline_id
         = v2_get_pipeline_info(pipelines_response).pipeline_id
    /\ pipeline_version_reference.pipeline_version_id
         = v2_get_pipeline_info(pipelines_response).version_id
    /\ pipeline_version_reference.pipeline_id = pipeline_id
    /\ pipeline_version_reference.pipeline_version_id = version_id

\* submit_pipeline_storage_fixed.py built its payload over the route of
\* another namespace.
C26_Witness ==
  /\ pc = "params_done" /\ script = "submit_pipeline_storage_fixed"
  /\ dspa_host = "https://host-of-another-namespace"
  /\ pipeline_version_reference.pipeline_id = "p1"
  /\ pipeline_version_reference.pipeline_version_id = "v1"
  /\ parameters["output_model_name"] = "fine-tuned-granite-7b-storage-fixed"

====
